---- MODULE Spec2Model ----
(***************************************************************************)
(* Resumable article-generation pipeline: the Job Store (JobManager), the  *)
(* background job run (process_job), the orchestrator                      *)
(* (SEOAgent.generate_article) and the request handlers that schedule runs *)
(* (create_job, resume_job, the synchronous generate endpoint).            *)
(***************************************************************************)
EXTENDS Integers, Sequences, FiniteSets, TLC

\* ---------------------------------------------------------------- bounds
\* Jobs that can be created and runs (background tasks and synchronous
\* generate requests) that can be started in one behaviour.
MaxJobs == 1
MaxTasks == 2

\* Sections of an outline that content is generated for.
MaxSections == 2

\* Rows of the jobs table and JobManager operations in one behaviour of the
\* table under two sessions.
MaxStoreJobs == 2
MaxStoreOps == 3
RngStates == 5     \* states of the random generator

\* ------------------------------------------------------ optional values
\* Python's None and a present value, as sequences of length 0 and 1.
None == <<>>
Some(v) == <<v>>
IsNone(x) == x = <<>>
Val(x) == x[1]

\* ------------------------------------------------------------- JobStatus
PENDING == "pending"
RESEARCHING == "researching"
ANALYZING == "analyzing"
OUTLINING == "outlining"
GENERATING == "generating"
VALIDATING == "validating"
COMPLETED == "completed"
FAILED == "failed"

JobStatus ==
    {PENDING, RESEARCHING, ANALYZING, OUTLINING, GENERATING, VALIDATING,
     COMPLETED, FAILED}

\* ------------------------------------------------------ error messages
\* str(e) of the exceptions a run can meet: one per failing collaborator.
ResearchError == "research failed"
OutlineError == "outline failed"
ContentError == "content failed"
StoreError == "store failed"

VARIABLES
    jobs,     \* the jobs table: a sequence of Job rows, the id is the index
    tasks,    \* the runs started so far: process_job tasks and /generate requests
    event,    \* the request answered by the last step (op "task" for a task step)
    llm,      \* one call of LLMClient.generate
    svc,      \* one call of a generation service
    store,    \* the jobs table under JobManager operations of two sessions
    rd,       \* one call of JobManager.get_resumable_data
    seo,      \* one call of SEOValidator.validate
    qs,       \* one call of QualityScorer.score
    research, \* the random generator and the calls of SERPService.fetch_serp_results
    req       \* one request body validated as ArticleRequest

vars == <<jobs, tasks, event, llm, svc, store, rd, seo, qs, research, req>>

\* What the steps of each component leave alone.
OutsideJobs == <<llm, svc, store, rd, seo, qs, research, req>>
OutsideLLM == <<jobs, tasks, event, svc, store, rd, seo, qs, research, req>>
OutsideServices == <<jobs, tasks, event, llm, store, rd, seo, qs, research, req>>
OutsideStore == <<jobs, tasks, event, llm, svc, rd, seo, qs, research, req>>
OutsideResumable == <<jobs, tasks, event, llm, svc, store, seo, qs, research, req>>
OutsideValidator == <<jobs, tasks, event, llm, svc, store, rd, qs, research, req>>
OutsideScorer == <<jobs, tasks, event, llm, svc, store, rd, seo, research, req>>
OutsideResearch == <<jobs, tasks, event, llm, svc, store, rd, seo, qs, req>>
OutsideRequest == <<jobs, tasks, event, llm, svc, store, rd, seo, qs, research>>

\* ---------------------------------------------------- schemas and blobs
\* The artifacts are told apart by the run that produced them.
TaskIds == 1..MaxTasks

SERPAnalysis == [by : TaskIds]
ArticleOutline == [by : TaskIds, serp : TaskIds]

\* pydantic's model_dump_json: the JSON text of a model.
model_dump_json(m) == [fmt |-> "json", doc |-> m]

\* pydantic's model_validate_json: the model when the text is JSON and its
\* document satisfies the schema, None (the ValidationError) otherwise.
model_validate_json(schema, text) ==
    IF text.fmt = "json" /\ text.doc \in schema THEN Some(text.doc) ELSE None

\* ------------------------------------------------------------- Job row
\* The column defaults of a new row.
NewJob ==
    [status |-> PENDING, progress |-> 0, current_step |-> "Job created",
     serp_data |-> None, outline_data |-> None,
     serp_collected |-> FALSE, outline_generated |-> FALSE,
     content_generated |-> FALSE,
     result |-> None, error_message |-> None, completed_at |-> FALSE]

\* ----------------------------------------------------------- JobManager
\* Each operation as the update it commits to one row.
\* update_progress that forgets to store the progress value.
update_progress_stale(job, status, progress, current_step) ==
    [job EXCEPT !.status = status,
                !.current_step = current_step,
                !.completed_at = IF status = COMPLETED THEN TRUE ELSE @]

update_progress(job, status, progress, current_step) ==
    [job EXCEPT !.status = status,
                !.progress = progress,
                !.current_step = current_step,
                !.completed_at = IF status = COMPLETED THEN TRUE ELSE @]

\* save_serp_data that commits nothing.
save_serp_data_lost(job, serp_analysis) == job

save_serp_data(job, serp_analysis) ==
    [job EXCEPT !.serp_data = Some(model_dump_json(serp_analysis)),
                !.serp_collected = TRUE]

\* save_outline that stores the blob and forgets the flag.
save_outline_noflag(job, outline) ==
    [job EXCEPT !.outline_data = Some(model_dump_json(outline))]

save_outline(job, outline) ==
    [job EXCEPT !.outline_data = Some(model_dump_json(outline)),
                !.outline_generated = TRUE]

save_result(job, article) ==
    [job EXCEPT !.result = Some(model_dump_json(article)),
                !.content_generated = TRUE,
                !.status = COMPLETED,
                !.progress = 100,
                !.current_step = "Complete",
                !.completed_at = TRUE]

mark_failed(job, error_message) ==
    [job EXCEPT !.status = FAILED,
                !.error_message = Some(error_message)]

\* get_resumable_data with both parses in one try block: an outline is
\* returned only when the research blob parsed.
resumable_outline_joined(job) ==
    IF ~IsNone(job.serp_data)
       /\ IsNone(model_validate_json([by : TaskIds], Val(job.serp_data)))
    THEN None
    ELSE IF IsNone(job.outline_data) THEN None
    ELSE model_validate_json([by : TaskIds, serp : TaskIds],
                             Val(job.outline_data))

\* get_resumable_data: each checkpoint parsed on its own, a blob that is
\* missing or does not parse gives None.
resumable_serp(job) ==
    IF IsNone(job.serp_data) THEN None
    ELSE model_validate_json(SERPAnalysis, Val(job.serp_data))

resumable_outline(job) ==
    IF IsNone(job.outline_data) THEN None
    ELSE model_validate_json(ArticleOutline, Val(job.outline_data))

get_resumable_data(job) == <<resumable_serp(job), resumable_outline(job)>>

\* ------------------------------------------------------------------ runs
\* A run is a process_job background task (kind "job") or a synchronous
\* /generate request (kind "sync", no job and no progress callback). pc is
\* the await the run is suspended at. serp_data and outline are process_job's
\* locals, passed to generate_article as existing_serp_data and
\* existing_outline; serp_analysis, ga_outline and article are
\* generate_article's locals; exc is the exception being handled.
\* History of the run: ckpt_serp and ckpt_outline are what get_resumable_data
\* returned, research_calls and outline_calls count the provider calls,
\* content_args are the arguments content generation was called with, and
\* writes is the sequence of progress values the run wrote to its job row.
NewTask(kind, job, pc) ==
    [kind |-> kind, job |-> job, pc |-> pc,
     serp_data |-> None, outline |-> None,
     serp_analysis |-> None, ga_outline |-> None, article |-> None,
     exc |-> None,
     ckpt_serp |-> None, ckpt_outline |-> None,
     research_calls |-> 0, outline_calls |-> 0,
     content_args |-> None, writes |-> <<>>, outcome |-> "running"]

TaskEvent == [op |-> "task", job |-> 0, code |-> 0]

Active(t) == tasks[t].pc # "done"

\* The run t continues as record r.
Continue(t, r) == tasks' = [tasks EXCEPT ![t] = r]

\* An exception with message msg leaves the run at the handler's await.
Raise(tk, msg, handler) == [tk EXCEPT !.exc = Some(msg), !.pc = handler]

\* The run ends: its frames and their locals are gone, its history stays.
Finish(tk, outcome) ==
    [tk EXCEPT !.pc = "done", !.outcome = outcome,
               !.serp_data = None, !.outline = None,
               !.serp_analysis = None, !.ga_outline = None, !.article = None]

\* generate_article from its entry to its first await: the existing
\* artifacts are taken over and their stages skipped.
AfterResearch(tk) ==
    IF IsNone(tk.outline)
    THEN [tk EXCEPT !.pc = "ga_outline_progress"]
    ELSE [tk EXCEPT !.ga_outline = tk.outline, !.pc = "ga_generating_progress"]

EnterGenerateArticle(tk) ==
    IF IsNone(tk.serp_data)
    THEN [tk EXCEPT !.pc = "ga_research_progress"]
    ELSE AfterResearch([tk EXCEPT !.serp_analysis = tk.serp_data])

\* process_job after the research checkpoint and after the outline
\* checkpoint: the next stage that still has no artifact.
AfterSerpStage(tk) ==
    IF IsNone(tk.outline) THEN [tk EXCEPT !.pc = "outline_progress"]
    ELSE EnterGenerateArticle(tk)

\* process_job that ignores the research checkpoint it loaded.
AfterResumable_ignored(tk) == [tk EXCEPT !.pc = "research_progress"]

AfterResumable(tk) ==
    IF IsNone(tk.serp_data) THEN [tk EXCEPT !.pc = "research_progress"]
    ELSE AfterSerpStage(tk)

\* One Job Store write of run t on its row: committed, and the run goes on
\* as next, or raised, and the run goes to its handler with the row as it was.
StoreWrite(t, row, next, handler) ==
    \E ok \in BOOLEAN :
        IF ok
        THEN /\ jobs' = [jobs EXCEPT ![tasks[t].job] = row]
             /\ Continue(t, next)
        ELSE /\ Continue(t, Raise(tasks[t], StoreError, handler))
             /\ UNCHANGED jobs

\* progress_callback of process_job: update_progress on the run's job.
progress_callback(t, status, progress, step, next, handler) ==
    StoreWrite(t, update_progress(jobs[tasks[t].job], status, progress, step),
               [next EXCEPT !.writes = Append(@, progress)], handler)

\* generate_article's update_progress: the callback when there is one.
ga_update_progress(t, status, progress, step, next) ==
    IF tasks[t].kind = "job"
    THEN progress_callback(t, status, progress, step, next, "ga_except")
    ELSE /\ Continue(t, next)
         /\ UNCHANGED jobs

\* ------------------------------------------------------------ process_job
GetResumable(t) ==
    /\ tasks[t].pc = "get_resumable"
    /\ \E ok \in BOOLEAN :
        LET d == get_resumable_data(jobs[tasks[t].job]) IN
        IF ok
        THEN Continue(t, AfterResumable(
                 [tasks[t] EXCEPT !.serp_data = d[1], !.outline = d[2],
                                  !.ckpt_serp = d[1], !.ckpt_outline = d[2]]))
        ELSE Continue(t, Raise(tasks[t], StoreError, "mark_failed"))
    /\ UNCHANGED jobs
    /\ event' = TaskEvent

ResearchProgress(t) ==
    /\ tasks[t].pc = "research_progress"
    /\ progress_callback(t, RESEARCHING, 10, "Researching topic",
                         [tasks[t] EXCEPT !.pc = "research"], "mark_failed")
    /\ event' = TaskEvent

\* agent.research_topic: the SERP fetch and its analysis.
Research(t) ==
    /\ tasks[t].pc = "research"
    /\ LET tk == [tasks[t] EXCEPT !.research_calls = @ + 1] IN
       \E ok \in BOOLEAN :
        IF ok
        THEN Continue(t, [tk EXCEPT !.serp_data = Some([by |-> t]),
                                    !.pc = "save_serp"])
        ELSE Continue(t, Raise(tk, ResearchError, "mark_failed"))
    /\ UNCHANGED jobs
    /\ event' = TaskEvent

SaveSerp(t) ==
    /\ tasks[t].pc = "save_serp"
    /\ StoreWrite(t, save_serp_data(jobs[tasks[t].job], Val(tasks[t].serp_data)),
                  AfterSerpStage(tasks[t]), "mark_failed")
    /\ event' = TaskEvent

OutlineProgress(t) ==
    /\ tasks[t].pc = "outline_progress"
    /\ progress_callback(t, OUTLINING, 35, "Creating outline",
                         [tasks[t] EXCEPT !.pc = "outline"], "mark_failed")
    /\ event' = TaskEvent

\* agent.generate_outline_only: researches first when it is given no analysis.
Outline(t) ==
    /\ tasks[t].pc = "outline"
    /\ LET noserp == IsNone(tasks[t].serp_data)
           tk == [tasks[t] EXCEPT
                     !.research_calls = IF noserp THEN @ + 1 ELSE @,
                     !.outline_calls = @ + 1]
           serp == IF noserp THEN t ELSE Val(tasks[t].serp_data).by IN
       \E ok \in BOOLEAN :
        IF ok
        THEN Continue(t, [tk EXCEPT !.outline = Some([by |-> t, serp |-> serp]),
                                    !.pc = "save_outline"])
        ELSE Continue(t, Raise(tk, OutlineError, "mark_failed"))
    /\ UNCHANGED jobs
    /\ event' = TaskEvent

SaveOutline(t) ==
    /\ tasks[t].pc = "save_outline"
    /\ StoreWrite(t, save_outline(jobs[tasks[t].job], Val(tasks[t].outline)),
                  EnterGenerateArticle(tasks[t]), "mark_failed")
    /\ event' = TaskEvent

SaveResult(t) ==
    /\ tasks[t].pc = "save_result"
    /\ StoreWrite(t, save_result(jobs[tasks[t].job], Val(tasks[t].article)),
                  Finish([tasks[t] EXCEPT !.writes = Append(@, 100)], "completed"),
                  "mark_failed")
    /\ event' = TaskEvent

\* The except clause of process_job. An exception of mark_failed itself
\* leaves the background task.
MarkFailed(t) ==
    /\ tasks[t].pc = "mark_failed"
    /\ \E ok \in BOOLEAN :
        IF ok
        THEN /\ jobs' = [jobs EXCEPT ![tasks[t].job] =
                            mark_failed(@, Val(tasks[t].exc))]
             /\ Continue(t, Finish(tasks[t], "failed"))
        ELSE /\ Continue(t, Finish(Raise(tasks[t], StoreError, "done"), "crashed"))
             /\ UNCHANGED jobs
    /\ event' = TaskEvent

\* ------------------------------------------ SEOAgent.generate_article
\* The end of generate_article: the article is returned to process_job, or
\* to the /generate handler, which answers 200.
Return(tk) ==
    IF tk.kind = "job" THEN [tk EXCEPT !.pc = "save_result"]
    ELSE Finish(tk, "returned")

\* The event of a step of run t that ends in record r: the answer of the
\* /generate request when a synchronous run ends.
StepEvent(r) ==
    IF r.kind = "sync" /\ r.pc = "done"
    THEN [op |-> "generate", job |-> 0,
          code |-> IF r.outcome = "returned" THEN 200 ELSE 500]
    ELSE TaskEvent

GA_ResearchProgress(t) ==
    /\ tasks[t].pc = "ga_research_progress"
    /\ ga_update_progress(t, RESEARCHING, 10, "Fetching search results", [tasks[t] EXCEPT !.pc = "ga_fetch"])
    /\ event' = TaskEvent

GA_Fetch(t) ==
    /\ tasks[t].pc = "ga_fetch"
    /\ LET tk == [tasks[t] EXCEPT !.research_calls = @ + 1] IN
       \E ok \in BOOLEAN :
        IF ok
        THEN Continue(t, [tk EXCEPT !.pc = "ga_analyzing_progress"])
        ELSE Continue(t, Raise(tk, ResearchError, "ga_except"))
    /\ UNCHANGED jobs
    /\ event' = TaskEvent

GA_AnalyzingProgress(t) ==
    /\ tasks[t].pc = "ga_analyzing_progress"
    /\ ga_update_progress(t, ANALYZING, 20, "Analyzing competitive landscape",
                          [tasks[t] EXCEPT !.pc = "ga_analyze"])
    /\ event' = TaskEvent

GA_Analyze(t) ==
    /\ tasks[t].pc = "ga_analyze"
    /\ Continue(t, AfterResearch(
           [tasks[t] EXCEPT !.serp_analysis = Some([by |-> t])]))
    /\ UNCHANGED jobs
    /\ event' = TaskEvent

GA_OutlineProgress(t) ==
    /\ tasks[t].pc = "ga_outline_progress"
    /\ ga_update_progress(t, OUTLINING, 35, "Creating article outline", [tasks[t] EXCEPT !.pc = "ga_outline"])
    /\ event' = TaskEvent

GA_Outline(t) ==
    /\ tasks[t].pc = "ga_outline"
    /\ LET tk == [tasks[t] EXCEPT !.outline_calls = @ + 1] IN
       \E ok \in BOOLEAN :
        IF ok
        THEN Continue(t, [tk EXCEPT
                 !.ga_outline = Some([by |-> t, serp |-> Val(tk.serp_analysis).by]),
                 !.pc = "ga_generating_progress"])
        ELSE Continue(t, Raise(tk, OutlineError, "ga_except"))
    /\ UNCHANGED jobs
    /\ event' = TaskEvent

GA_GeneratingProgress(t) ==
    /\ tasks[t].pc = "ga_generating_progress"
    /\ ga_update_progress(t, GENERATING, 50, "Generating article content", [tasks[t] EXCEPT !.pc = "ga_content"])
    /\ event' = TaskEvent

\* content_generator.generate(outline, serp_analysis)
GA_Content(t) ==
    /\ tasks[t].pc = "ga_content"
    /\ LET args == [serp_analysis |-> Val(tasks[t].serp_analysis),
                    outline |-> Val(tasks[t].ga_outline)]
           tk == [tasks[t] EXCEPT !.content_args = Some(args)] IN
       \E ok \in BOOLEAN :
        IF ok
        THEN Continue(t, [tk EXCEPT
                 !.article = Some([serp |-> args.serp_analysis.by,
                                   outline |-> args.outline.by,
                                   seo_validation |-> FALSE,
                                   quality_score |-> FALSE,
                                   seo_component |-> "none"]),
                 !.pc = "ga_validating_progress"])
        ELSE Continue(t, Raise(tk, ContentError, "ga_except"))
    /\ UNCHANGED jobs
    /\ event' = TaskEvent

\* seo_validator.validate is a plain call and quality_scorer.score awaits
\* nothing: each runs in the same turn of the event loop as the return of
\* the update_progress before it.
\* generate_article that does not attach the validation result.
Validated_unattached(tk) == tk

Validated(tk) ==
    [tk EXCEPT !.article = Some([Val(@) EXCEPT !.seo_validation = TRUE])]

\* score takes the SEO component from article.seo_validation when it is
\* attached and the default 80 otherwise.
Scored(tk) ==
    [tk EXCEPT !.article =
        Some([Val(@) EXCEPT !.quality_score = TRUE,
                            !.seo_component =
                                IF Val(tk.article).seo_validation
                                THEN "validation" ELSE "default"])]

GA_ValidatingProgress(t) ==
    /\ tasks[t].pc = "ga_validating_progress"
    /\ ga_update_progress(t, VALIDATING, 80, "Validating SEO criteria",
           [Validated(tasks[t]) EXCEPT !.pc = "ga_scoring_progress"])
    /\ event' = TaskEvent

GA_ScoringProgress(t) ==
    /\ tasks[t].pc = "ga_scoring_progress"
    /\ ga_update_progress(t, VALIDATING, 90, "Scoring content quality",
           [Scored(tasks[t]) EXCEPT !.pc = "ga_completed_progress"])
    /\ event' = TaskEvent

GA_CompletedProgress(t) ==
    /\ tasks[t].pc = "ga_completed_progress"
    /\ ga_update_progress(t, COMPLETED, 100, "Article generation complete",
                          Return(tasks[t]))
    /\ event' = StepEvent(tasks'[t])

\* The except clause of generate_article: the callback is told of the
\* failure and the exception is raised again; an exception of the callback
\* takes its place. Without a callback the /generate handler answers 500.
GA_Except(t) ==
    /\ tasks[t].pc = "ga_except"
    /\ IF tasks[t].kind = "job"
       THEN StoreWrite(t,
                update_progress(jobs[tasks[t].job], FAILED, 0,
                                <<"Error", Val(tasks[t].exc)>>),
                [tasks[t] EXCEPT !.pc = "mark_failed", !.writes = Append(@, 0)],
                "mark_failed")
       ELSE /\ Continue(t, Finish(tasks[t], "http500"))
            /\ UNCHANGED jobs
    /\ event' = StepEvent(tasks'[t])

\* ------------------------------------------------------ request handlers
Response(op, job, code) == [op |-> op, job |-> job, code |-> code]

\* POST /jobs: the row is created and its run scheduled, or the store raises.
create_job ==
    /\ Len(jobs) < MaxJobs
    /\ Len(tasks) < MaxTasks
    /\ \E ok \in BOOLEAN :
        IF ok
        THEN /\ jobs' = Append(jobs, NewJob)
             /\ tasks' = Append(tasks, NewTask("job", Len(jobs) + 1, "get_resumable"))
             /\ event' = Response("create", Len(jobs) + 1, 200)
        ELSE /\ event' = Response("create", 0, 500)
             /\ UNCHANGED <<jobs, tasks>>

\* resume_job without the status check for PENDING or FAILED.
resume_job_unchecked(job_id) ==
    IF job_id > Len(jobs)
    THEN /\ event' = Response("resume", job_id, 404)
         /\ UNCHANGED <<jobs, tasks>>
    ELSE IF jobs[job_id].status = COMPLETED
    THEN /\ event' = Response("resume", job_id, 400)
         /\ UNCHANGED <<jobs, tasks>>
    ELSE /\ Len(tasks) < MaxTasks
         /\ jobs' = [jobs EXCEPT ![job_id] =
                        update_progress(@, PENDING, 0, "Resuming job")]
         /\ tasks' = Append(tasks, NewTask("job", job_id, "get_resumable"))
         /\ event' = Response("resume", job_id, 200)

\* POST /jobs/{job_id}/resume
resume_job(job_id) ==
    IF job_id > Len(jobs)
    THEN /\ event' = Response("resume", job_id, 404)
         /\ UNCHANGED <<jobs, tasks>>
    ELSE IF jobs[job_id].status = COMPLETED
    THEN /\ event' = Response("resume", job_id, 400)
         /\ UNCHANGED <<jobs, tasks>>
    ELSE IF jobs[job_id].status \notin {FAILED, PENDING}
    THEN /\ event' = Response("resume", job_id, 400)
         /\ UNCHANGED <<jobs, tasks>>
    ELSE /\ Len(tasks) < MaxTasks
         /\ \E ok \in BOOLEAN :
             IF ok
             THEN /\ jobs' = [jobs EXCEPT ![job_id] =
                                 update_progress(@, PENDING, 0, "Resuming job")]
                  /\ tasks' = Append(tasks, NewTask("job", job_id, "get_resumable"))
                  /\ event' = Response("resume", job_id, 200)
             ELSE /\ event' = Response("resume", job_id, 500)
                  /\ UNCHANGED <<jobs, tasks>>

\* POST /generate: generate_article with no callback and no existing data.
generate_article ==
    /\ Len(tasks) < MaxTasks
    /\ tasks' = Append(tasks, EnterGenerateArticle(NewTask("sync", 0, "entry")))
    /\ event' = Response("generate", 0, 0)
    /\ UNCHANGED jobs

\* -------------------------------------------------------------- LLMClient
\* An error message is the sequence of its words, each a spelling in lower
\* case and the letter case it is written in; str.lower() rewrites every
\* word in lower case, and Python's `marker in text` looks for the words of
\* the marker side by side in the text.
Casings == {"lower", "Title", "UPPER"}
W(w, c) == [w |-> w, c |-> c]
Text(c, ws) == [i \in 1..Len(ws) |-> W(ws[i], c)]
lower(msg) == [i \in 1..Len(msg) |-> W(msg[i].w, "lower")]
Contains(text, marker) ==
    \E i \in 0..(Len(text) - Len(marker)) :
        \A k \in 1..Len(marker) : text[i + k] = marker[k]

non_retryable_types ==
    {"NotFoundError", "AuthenticationError", "InvalidRequestError",
     "PermissionDeniedError"}

non_retryable_messages ==
    { Text("lower", <<"not", "found">>),
      Text("lower", <<"notfound">>),
      Text("lower", <<"invalid", "api", "key">>),
      Text("lower", <<"authentication">>),
      Text("lower", <<"invalid", "request">>),
      Text("lower", <<"permission", "denied">>),
      Text("lower", <<"model_not_found">>),
      Text("lower", <<"model", "not", "available">>),
      Text("lower", <<"non-retryable", "error">>) }

\* _is_retryable_error that compares the message as it is written.
is_retryable_error_cased(exception) ==
    /\ exception.type \notin non_retryable_types
    /\ \A msg \in non_retryable_messages : ~Contains(exception.msg, msg)

\* LLMClient._is_retryable_error
is_retryable_error(exception) ==
    LET error_type == exception.type
        error_msg == lower(exception.msg) IN
    IF error_type \in non_retryable_types THEN FALSE
    ELSE IF \E msg \in non_retryable_messages : Contains(error_msg, msg) THEN FALSE
    ELSE TRUE

\* The exceptions of a provider client: its class name and its message.
RetryableTypes == {"RateLimitError", "APIError", "APITimeoutError"}
ErrorTypes == non_retryable_types \cup RetryableTypes \cup {"ValueError"}
Messages ==
    { Text(c, ws) : c \in Casings,
                    ws \in { <<"resource", "not", "found">>,
                             <<"authentication", "failed">>,
                             <<"invalid", "request">>,
                             <<"permission", "denied">>,
                             <<"rate", "limit", "exceeded">>,
                             <<"internal", "server", "error">>,
                             <<"request", "timed", "out">>,
                             <<"non-retryable", "failure">> } }
Exception(type, msg) == [type |-> type, msg |-> msg]
ProviderErrors == [type : ErrorTypes, msg : Messages]

\* What one call of the provider's API does: it answers with a text, with
\* no content, or raises.
Providers == {"openai", "anthropic"}
Texts == {"text-1", "text-2"}
Responses ==
    {[kind |-> "text", text |-> x] : x \in Texts}
        \cup {[kind |-> "empty"]}
        \cup {[kind |-> "raise", e |-> e] : e \in ProviderErrors}

\* _generate_openai and _generate_anthropic on the provider's answer: the
\* text, or the exception that leaves them.
EmptyResponse(provider) ==
    Exception("ValueError",
        <<W("empty", "Title"), W("response", "lower"), W("from", "lower"),
          W(provider, "Title"), W("api", "UPPER")>>)
ModelNotFound ==
    Exception("ValueError",
        <<W("model", "Title"), W("model-name", "lower"), W("not", "lower"),
          W("found", "lower"), W(".", "lower"), W("please", "Title"),
          W("check", "lower"), W("your", "lower"), W("model", "lower"),
          W("name", "lower"), W(".", "lower")>>)
InvalidAPIKey(provider) ==
    Exception("ValueError",
        <<W("invalid", "Title"), W("api", "UPPER"), W("key", "lower"),
          W(".", "lower"), W("please", "Title"), W("check", "lower"),
          W("your", "lower"), W(provider, "UPPER"), W("api_key", "UPPER"),
          W(".", "lower")>>)

generate_provider(provider, response) ==
    CASE response.kind = "text" -> None
      [] response.kind = "empty" -> Some(EmptyResponse(provider))
      [] response.e.type = "NotFoundError" -> Some(ModelNotFound)
      [] response.e.type = "AuthenticationError" -> Some(InvalidAPIKey(provider))
      [] OTHER -> Some(response.e)

\* The except clause of generate that lets a non-retryable error through.
except_unwrapped(e) == e

\* The except clause of generate: the exception that leaves the body of
\* generate when its provider call raised e.
except_generate(e) ==
    IF ~is_retryable_error(e)
    THEN Exception("ValueError",
             <<W("non-retryable", "Title"), W("error", "lower"), W(":", "lower")>>
                 \o e.msg)
    ELSE e

\* The retry decorator of generate: retry_if_exception's predicate,
\* stop_after_attempt(3) and wait_exponential(multiplier=1, min=2, max=10),
\* which waits multiplier * 2^(attempt_number - 1) kept within min and max.
retry_if_exception(e) ==
    \/ e.type # "ValueError"
    \/ ~Contains(lower(e.msg), Text("lower", <<"non-retryable">>))

max_attempt_number == 3
stop_later(attempt_number) == attempt_number >= max_attempt_number + 1
stop_after_attempt(attempt_number) == attempt_number >= max_attempt_number

multiplier == 1
min == 2
max == 10
Min2(a, b) == IF a < b THEN a ELSE b
Max2(a, b) == IF a > b THEN a ELSE b
wait_exponential(attempt_number) ==
    Max2(Max2(0, min), Min2(multiplier * 2 ^ (attempt_number - 1), max))

\* One call of generate: where it is, the attempt it is in, the provider
\* calls it has made, the waits it has slept, and of its last attempt the
\* provider's answer, the exception generate's except clause caught, the
\* verdict of _is_retryable_error on it and the exception that left the
\* body, and the text the call returned.
NewCall ==
    [pc |-> "idle", provider |-> "openai", attempt_number |-> 0, calls |-> 0,
     waits |-> <<>>, response |-> None, caught |-> None, retryable |-> None,
     exc |-> None, result |-> None]

\* A caller awaits llm_client.generate.
generate(provider) ==
    /\ llm.pc \in {"idle", "returned", "raised"}
    /\ llm' = [NewCall EXCEPT !.pc = "attempt", !.provider = provider,
                              !.attempt_number = 1]
    /\ UNCHANGED OutsideLLM

\* One attempt: the body of generate, and what the retry decorator does with
\* its outcome.
Attempt(response) ==
    /\ llm.pc = "attempt"
    /\ LET raised == generate_provider(llm.provider, response)
           call == [llm EXCEPT !.calls = @ + 1, !.response = Some(response)] IN
       IF IsNone(raised)
       THEN llm' = [call EXCEPT !.pc = "returned", !.caught = None,
                                !.retryable = None, !.exc = None,
                                !.result = Some(response.text)]
       ELSE LET e == except_generate(Val(raised))
                seen == [call EXCEPT !.caught = raised,
                            !.retryable = Some(is_retryable_error(Val(raised))),
                            !.exc = Some(e)] IN
            IF ~retry_if_exception(e) \/ stop_after_attempt(llm.attempt_number)
            THEN llm' = [seen EXCEPT !.pc = "raised"]
            ELSE llm' = [seen EXCEPT !.pc = "sleep",
                            !.waits = Append(@, wait_exponential(llm.attempt_number))]
    /\ UNCHANGED OutsideLLM

\* The wait between two attempts is over.
Sleep ==
    /\ llm.pc = "sleep"
    /\ llm' = [llm EXCEPT !.pc = "attempt", !.attempt_number = @ + 1]
    /\ UNCHANGED OutsideLLM

\* --------------------------------------------------- generation services
\* SERPAnalyzer.analyze, OutlineGenerator.generate and
\* ContentGenerator.generate: the generation calls each of them awaits and
\* what it does with their failures. A generation call answers with a text
\* or raises what LLMClient.generate raises: a terminal error, or the last
\* error after its retries are exhausted.
GenErrors == {"terminal", "exhausted"}
Answers == {"text", "unparsable"} \cup GenErrors

\* len('best productivity tools for remote teams'), the example topic.
ExampleTopic == 40

\* An ArticleRequest: the length of its topic and its target word count.
TopicLengths == {3, ExampleTopic, 42, 43}
WordCounts == {500, 509, 1500, 9999, 10000}
Requests == [topic : TopicLengths, target_word_count : WordCounts]

\* The text an outline call answers with: no JSON object in it, an object
\* json.loads refuses, or an object with the sections it lists (each with
\* its level, when it has one) and its meta_description (its length, when
\* it has one).
Levels == {None, Some(0), Some(2), Some(4)}
SectionLists ==
    {<<>>} \cup {<<l>> : l \in Levels} \cup {<<l, m>> : l \in Levels, m \in Levels}
MetaDescriptions == {None, Some(100), Some(200)}
OutlineTexts ==
    {[kind |-> "no_json"], [kind |-> "bad_json"]}
        \cup {[kind |-> "json", sections |-> s, meta_description |-> d] :
                 s \in SectionLists, d \in MetaDescriptions}

\* pydantic's validation of OutlineSection and ArticleOutline.
OutlineSection_valid(s) == s.level >= 1 /\ s.level <= 3
ArticleOutline_valid(o) ==
    /\ o.meta_description <= 160
    /\ \A i \in 1..Len(o.sections) : OutlineSection_valid(o.sections[i])

\* The construction of an ArticleOutline: the outline, or pydantic's
\* ValidationError.
Constructed(o) ==
    IF ArticleOutline_valid(o)
    THEN [outline |-> Some(o), exc |-> None]
    ELSE [outline |-> None, exc |-> Some("ValidationError")]

\* A fallback outline of five equal sections.
create_fallback_outline_even(request) ==
    LET part(p) == [level |-> 2,
                    target_word_count |-> (request.target_word_count * p) \div 100] IN
    Constructed([fallback |-> TRUE,
                 meta_description |-> 43 + request.topic + 75,
                 sections |-> <<part(20), part(20), part(20), part(20), part(20)>>,
                 estimated_word_count |-> request.target_word_count])

\* _create_fallback_outline that rounds the shares up.
create_fallback_outline_rounded_up(request) ==
    LET part(p) == [level |-> 2,
                    target_word_count |->
                        (request.target_word_count * p + 99) \div 100] IN
    Constructed([fallback |-> TRUE,
                 meta_description |-> 43 + request.topic + 75,
                 sections |-> <<part(15), part(20), part(25), part(25), part(15)>>,
                 estimated_word_count |-> request.target_word_count])

\* OutlineGenerator._create_fallback_outline; int(word_count * 0.15) and the
\* like are the shares rounded down, for every word count of 500..10000.
create_fallback_outline(request) ==
    LET part(p) == [level |-> 2,
                    target_word_count |-> (request.target_word_count * p) \div 100] IN
    Constructed([fallback |-> TRUE,
                 meta_description |-> 43 + request.topic + 75,
                 sections |-> <<part(15), part(20), part(25), part(25), part(15)>>,
                 estimated_word_count |-> request.target_word_count])

\* OutlineGenerator._parse_response
parse_response(response, request) ==
    IF response.kind = "no_json" THEN create_fallback_outline(request)
    ELSE IF response.kind = "bad_json" THEN create_fallback_outline(request)
    ELSE LET section(s) == [level |-> IF IsNone(s) THEN 2 ELSE Val(s),
                            target_word_count |-> 200]
             d == response.meta_description
             sliced == IF IsNone(d) THEN 0 ELSE Min2(Val(d), 160) IN
         Constructed([fallback |-> FALSE,
                      meta_description |-> sliced,
                      sections |-> [i \in 1..Len(response.sections) |->
                                        section(response.sections[i])],
                      estimated_word_count |-> request.target_word_count])

\* One call of a service: which service, where it is, the request and the
\* answer of an outline call, the sections still to write and whether the
\* analysis has questions, the generation calls that failed, and what the
\* service returned or raised.
NewService ==
    [service |-> "none", pc |-> "idle", request |-> None, response |-> None,
     todo |-> 0, questions |-> FALSE, failed |-> {}, outline |-> None,
     exc |-> None]

ServiceIdle == svc.pc \in {"idle", "returned", "raised"}
ServiceReturns(s) == [s EXCEPT !.pc = "returned"]
ServiceRaises(s, e) == [s EXCEPT !.pc = "raised", !.exc = Some(e)]
Failed(s, call, answer) ==
    IF answer \in GenErrors THEN [s EXCEPT !.failed = @ \cup {call}] ELSE s

\* SERPAnalyzer.analyze on research data with or without questions.
SA_Analyze(questions) ==
    /\ ServiceIdle
    /\ svc' = IF questions
              THEN ServiceReturns([NewService EXCEPT !.service = "analyzer",
                                                     !.questions = TRUE])
              ELSE [NewService EXCEPT !.service = "analyzer", !.pc = "questions"]
    /\ UNCHANGED OutsideServices

\* SERPAnalyzer._extract_questions_with_llm: any exception gives no question.
SA_ExtractQuestions(answer) ==
    /\ svc.pc = "questions"
    /\ svc' = ServiceReturns([Failed(svc, "questions", answer)
                                EXCEPT !.questions = (answer \notin GenErrors)])
    /\ UNCHANGED OutsideServices

\* OutlineGenerator.generate
OG_Generate(request) ==
    /\ ServiceIdle
    /\ svc' = [NewService EXCEPT !.service = "outline", !.pc = "outline",
                                 !.request = Some(request)]
    /\ UNCHANGED OutsideServices

\* The outline call raised: generate lets the exception through.
OG_CallFailed(error) ==
    /\ svc.pc = "outline"
    /\ svc' = ServiceRaises(Failed(svc, "outline", error), error)
    /\ UNCHANGED OutsideServices

\* The outline call answered: _parse_response.
OG_Parse(response) ==
    /\ svc.pc = "outline"
    /\ LET r == parse_response(response, Val(svc.request))
           s == [svc EXCEPT !.response = Some(response), !.outline = r.outline] IN
       svc' = IF IsNone(r.exc) THEN ServiceReturns(s)
              ELSE ServiceRaises(s, Val(r.exc))
    /\ UNCHANGED OutsideServices

\* ContentGenerator.generate on an outline of n sections.
CG_Generate(n, questions) ==
    /\ ServiceIdle
    /\ svc' = [NewService EXCEPT !.service = "content", !.pc = "sections",
                                 !.todo = n, !.questions = questions]
    /\ UNCHANGED OutsideServices

AfterSections(s) ==
    IF s.todo > 0 THEN s
    ELSE IF s.questions THEN [s EXCEPT !.pc = "faq"]
    ELSE [s EXCEPT !.pc = "internal_links"]

\* _generate_sections: one generation call for each section of the outline;
\* an exception of a call leaves generate.
CG_Section(answer) ==
    /\ svc.pc = "sections"
    /\ svc.todo > 0
    /\ svc' = IF answer \in GenErrors
              THEN ServiceRaises(Failed(svc, "section", answer), answer)
              ELSE AfterSections([svc EXCEPT !.todo = @ - 1])
    /\ UNCHANGED OutsideServices

\* _generate_faq: any exception gives no FAQ item.
CG_FAQ(answer) ==
    /\ svc.pc = "faq"
    /\ svc' = [Failed(svc, "faq", answer) EXCEPT !.pc = "internal_links"]
    /\ UNCHANGED OutsideServices

\* _generate_internal_links: any exception gives no suggestion.
CG_InternalLinks(answer) ==
    /\ svc.pc = "internal_links"
    /\ svc' = [Failed(svc, "internal_links", answer)
                  EXCEPT !.pc = "external_references"]
    /\ UNCHANGED OutsideServices

\* _generate_external_references: any exception gives no reference; the
\* article is then compiled and returned.
CG_ExternalReferences(answer) ==
    /\ svc.pc = "external_references"
    /\ svc' = ServiceReturns(Failed(svc, "external_references", answer))
    /\ UNCHANGED OutsideServices

\* ------------------------------------------- JobManager on its database
\* Each JobManager operation is a SELECT of the row into the session, the
\* assignment of attributes on the loaded object and a commit, with an
\* await before and after the assignments. The commit's UPDATE sets the
\* attributes whose assigned value differs from the loaded one (a timestamp
\* assigned utcnow() always differs), in the row as it then is in the
\* database. The row is read afresh by every SELECT.
Sessions == {"s1", "s2"}

\* The operations the program calls, with the arguments of its call sites.
StoreOps ==
    {[name |-> "update_progress", status |-> s[1], progress |-> s[2], arg |-> s[3]] :
        s \in {<<PENDING, 0, "Resuming job">>,
               <<RESEARCHING, 10, "Researching topic">>,
               <<OUTLINING, 35, "Creating outline">>,
               <<VALIDATING, 80, "Validating SEO criteria">>,
               <<VALIDATING, 90, "Scoring content quality">>,
               <<COMPLETED, 100, "Article generation complete">>}}
    \cup {[name |-> n, status |-> PENDING, progress |-> 0, arg |-> "-"] :
            n \in {"save_serp_data", "save_result", "mark_failed"}}

\* The operation as JobManager's code assigns it on a loaded row.
Assigned(op, row) ==
    CASE op.name = "update_progress" ->
            update_progress(row, op.status, op.progress, op.arg)
      [] op.name = "save_serp_data" -> save_serp_data(row, [by |-> 1])
      [] op.name = "save_result" ->
            save_result(row, [serp |-> 1, outline |-> 1,
                              seo_validation |-> TRUE, quality_score |-> TRUE,
                              seo_component |-> "validation"])
      [] op.name = "mark_failed" -> mark_failed(row, ContentError)

\* The session's flush: the columns of the UPDATE it emits.
Flushed(loaded, assigned) ==
    {c \in DOMAIN loaded :
        \/ assigned[c] # loaded[c]
        \/ c = "completed_at" /\ assigned[c]}

\* The database, the rows and the operations since no operation was last in
\* progress, the operations started so far, and each session's operation in
\* progress with the row it loaded.
IdleSession == [pc |-> "idle", job |-> 0, op |-> None, loaded |-> None]

NewStore ==
    [rows |-> [j \in 1..MaxStoreJobs |-> NewJob],
     base |-> [j \in 1..MaxStoreJobs |-> NewJob],
     log |-> <<>>, started |-> 0,
     session |-> [s \in Sessions |-> IdleSession]]

Quiet == \A s \in Sessions : store.session[s].pc = "idle"

\* await self.session.execute(select(Job).where(Job.id == job_id))
Select(s, job, op) ==
    /\ store.session[s].pc = "idle"
    /\ store.started < MaxStoreOps
    /\ store' = [store EXCEPT
            !.session[s] = [pc |-> "selected", job |-> job, op |-> Some(op),
                            loaded |-> Some(store.rows[job])],
            !.started = @ + 1,
            !.base = IF Quiet THEN store.rows ELSE @,
            !.log = IF Quiet THEN <<[job |-> job, op |-> op]>>
                    ELSE Append(@, [job |-> job, op |-> op])]
    /\ UNCHANGED OutsideStore

\* The assignments and await self.session.commit()
Commit(s) ==
    /\ store.session[s].pc = "selected"
    /\ LET job == store.session[s].job
           loaded == Val(store.session[s].loaded)
           assigned == Assigned(Val(store.session[s].op), loaded)
           cols == Flushed(loaded, assigned) IN
       store' = [store EXCEPT
            !.rows[job] = [c \in DOMAIN @ |->
                              IF c \in cols THEN assigned[c] ELSE @[c]],
            !.session[s] = IdleSession]
    /\ UNCHANGED OutsideStore

\* ------------------------------------ JobManager.get_resumable_data
\* What a checkpoint column can hold: nothing, text that is not JSON, JSON
\* of the other schema or with a field out of range, JSON of the schema.
NotJson == {[fmt |-> "text", doc |-> d] : d \in {"", "{"}}
SerpBlobs ==
    {None} \cup {Some(b) : b \in NotJson}
    \cup {Some(model_dump_json(d)) : d \in SERPAnalysis \cup {[by |-> 0]}}
OutlineBlobs ==
    {None} \cup {Some(b) : b \in NotJson}
    \cup {Some(model_dump_json(d)) :
            d \in ArticleOutline \cup {[by |-> 1], [by |-> 0, serp |-> 1]}}

\* A call not made yet.
NewLookup ==
    [pc |-> "idle", job |-> None, serp_analysis |-> None, outline |-> None,
     logged |-> 0]

\* The blob was there and did not parse: the except clause logs the error.
ParseErrors(blob, parsed) == IF ~IsNone(blob) /\ IsNone(parsed) THEN 1 ELSE 0

\* The SELECT: it raises, finds no row (None, None is returned), or finds the
\* row with its two blobs.
RD_Select ==
    /\ rd.pc = "idle"
    /\ \/ rd' = [rd EXCEPT !.pc = "raised"]
       \/ rd' = [rd EXCEPT !.pc = "returned"]
       \/ \E s \in SerpBlobs, o \in OutlineBlobs :
            rd' = [rd EXCEPT !.pc = "serp",
                     !.job = Some([NewJob EXCEPT !.serp_data = s,
                                                 !.outline_data = o])]
    /\ UNCHANGED OutsideResumable

\* if job.serp_data: try model_validate_json, except Exception: log.
RD_Serp ==
    /\ rd.pc = "serp"
    /\ LET parsed == resumable_serp(Val(rd.job)) IN
        rd' = [rd EXCEPT !.pc = "outline",
                 !.serp_analysis = parsed,
                 !.logged = @ + ParseErrors(Val(rd.job).serp_data, parsed)]
    /\ UNCHANGED OutsideResumable

\* if job.outline_data: try model_validate_json, except Exception: log;
\* return serp_analysis, outline.
RD_Outline ==
    /\ rd.pc = "outline"
    /\ LET parsed == resumable_outline(Val(rd.job)) IN
        rd' = [rd EXCEPT !.pc = "returned",
                 !.outline = parsed,
                 !.logged = @ + ParseErrors(Val(rd.job).outline_data, parsed)]
    /\ UNCHANGED OutsideResumable

\* ------------------------------------------------------------ SEOValidator
\* An article as the validator reads it: lengths for the strings it
\* measures, a flag for each `keyword.lower() in text.lower()` it evaluates,
\* the heading levels of the sections, and the number of 4-word phrases that
\* occur more than 3 times in the content.
MIN_WORD_COUNT == 300
MAX_WORD_COUNT == 15000
MIN_KEYWORD_DENSITY == 5      \* tenths of a percent
MAX_KEYWORD_DENSITY == 30     \* tenths of a percent
MIN_TITLE_LENGTH == 30
MAX_TITLE_LENGTH == 60
MIN_META_DESC_LENGTH == 120
MAX_META_DESC_LENGTH == 160
MIN_H2_HEADINGS == 2
MIN_INTERNAL_LINKS == 2
MIN_EXTERNAL_REFS == 1

Articles ==
    [word_count : {299, 300, 15001},
     title_tag : {29, 30},
     keyword_in_title : BOOLEAN,
     meta_description : {119, 160},
     keyword_in_description : BOOLEAN,
     primary_keyword_density : {4, 5, 31},
     sections : {<<>>, <<3>>, <<2, 3, 2>>, <<3, 2, 2>>, <<2, 2, 1, 3>>},
     keyword_in_first_200_words : BOOLEAN,
     internal_links : {1, 2},
     external_references : {0, 1},
     repetitive : {5, 6}]

check_word_count(word_count) ==
    IF word_count < MIN_WORD_COUNT THEN FALSE
    ELSE IF word_count > MAX_WORD_COUNT THEN FALSE
    ELSE TRUE

check_title_tag(title, keyword_in_title) ==
    /\ ~(title < MIN_TITLE_LENGTH)
    /\ ~(title > MAX_TITLE_LENGTH)
    /\ keyword_in_title

check_meta_description(description, keyword_in_description) ==
    /\ ~(description < MIN_META_DESC_LENGTH)
    /\ ~(description > MAX_META_DESC_LENGTH)
    /\ keyword_in_description

check_keyword_density(density) ==
    IF density < MIN_KEYWORD_DENSITY THEN FALSE
    ELSE IF density > MAX_KEYWORD_DENSITY THEN FALSE
    ELSE TRUE

\* The hierarchy loop: it runs over the sections with the level of the section
\* before, 1 at the start, and stops at the first level above last_level + 1.
RECURSIVE hierarchy_jump(_, _)
hierarchy_jump(sections, last_level) ==
    IF sections = <<>> THEN FALSE
    ELSE IF Head(sections) > last_level + 1 THEN TRUE
    ELSE hierarchy_jump(Tail(sections), Head(sections))

\* _check_heading_structure without the hierarchy loop.
check_heading_structure_count_only(sections) ==
    ~(Cardinality({i \in DOMAIN sections : sections[i] = 2}) < MIN_H2_HEADINGS)

check_heading_structure(sections) ==
    /\ ~(Cardinality({i \in DOMAIN sections : sections[i] = 2}) < MIN_H2_HEADINGS)
    /\ ~hierarchy_jump(sections, 1)

check_keyword_in_intro(sections, keyword_in_first_200_words) ==
    IF sections = <<>> THEN FALSE ELSE keyword_in_first_200_words

check_internal_links(internal_links) ==
    ~(internal_links < MIN_INTERNAL_LINKS)

check_external_refs(external_refs) ==
    ~(external_refs < MIN_EXTERNAL_REFS)

check_content_uniqueness(repetitive) == ~(repetitive > 5)

\* What each check appends to issues, and with each entry one entry to
\* suggestions: the entries are named by the start of their text.
word_count_issues(word_count) ==
    IF word_count < MIN_WORD_COUNT THEN <<"Word count is below minimum">>
    ELSE IF word_count > MAX_WORD_COUNT THEN <<"Word count exceeds maximum">>
    ELSE <<>>

title_tag_issues(title, keyword_in_title) ==
    (IF title < MIN_TITLE_LENGTH THEN <<"Title tag too short">>
     ELSE IF title > MAX_TITLE_LENGTH THEN <<"Title tag too long">>
     ELSE <<>>)
    \o (IF ~keyword_in_title
        THEN <<"Primary keyword not found in title tag">> ELSE <<>>)

meta_description_issues(description, keyword_in_description) ==
    (IF description < MIN_META_DESC_LENGTH
     THEN <<"Meta description too short">>
     ELSE IF description > MAX_META_DESC_LENGTH
     THEN <<"Meta description too long">>
     ELSE <<>>)
    \o (IF ~keyword_in_description
        THEN <<"Primary keyword not found in meta description">> ELSE <<>>)

keyword_density_issues(density) ==
    IF density < MIN_KEYWORD_DENSITY THEN <<"Keyword density is too low">>
    ELSE IF density > MAX_KEYWORD_DENSITY
    THEN <<"Keyword density is too high">>
    ELSE <<>>

heading_structure_issues(sections) ==
    (IF Cardinality({i \in DOMAIN sections : sections[i] = 2}) < MIN_H2_HEADINGS
     THEN <<"Only n H2 headings">> ELSE <<>>)
    \o (IF hierarchy_jump(sections, 1)
        THEN <<"Heading hierarchy jump">> ELSE <<>>)

\* `if not sections: return False` appends nothing.
keyword_in_intro_issues(sections, keyword_in_first_200_words) ==
    IF sections = <<>> THEN <<>>
    ELSE IF ~keyword_in_first_200_words
    THEN <<"Primary keyword not found in first 200 words">>
    ELSE <<>>

internal_links_issues(internal_links) ==
    IF internal_links < MIN_INTERNAL_LINKS
    THEN <<"Only n internal link suggestions">> ELSE <<>>

external_refs_issues(external_refs) ==
    IF external_refs < MIN_EXTERNAL_REFS
    THEN <<"No external references">> ELSE <<>>

content_uniqueness_issues(repetitive) ==
    IF repetitive > 5 THEN <<"Content contains repetitive phrases">> ELSE <<>>

\* The entries a check appended, each with the name of the check.
AppendedBy(check, entries) ==
    [i \in DOMAIN entries |-> [check |-> check, text |-> entries[i]]]

\* round(x, 1) of the quotient num / den, in tenths: the nearest tenth, a
\* tie going to the even one.
round1(num, den) ==
    LET q == (num * 10) \div den
        r == (num * 10) % den IN
    IF 2 * r < den THEN q
    ELSE IF 2 * r > den THEN q + 1
    ELSE IF q % 2 = 0 THEN q ELSE q + 1

\* validate with a 60% threshold.
is_valid_at_60(passed_checks, total_checks) ==
    passed_checks * 100 >= 60 * total_checks

\* score >= 70 for score = (passed_checks / total_checks) * 100.
is_valid(passed_checks, total_checks) ==
    passed_checks * 100 >= 70 * total_checks

\* The result of validate: score is in tenths of a point.
validate(article) ==
    LET checks ==
            [word_count_adequate |-> check_word_count(article.word_count),
             title_tag_optimized |->
                 check_title_tag(article.title_tag, article.keyword_in_title),
             meta_description_optimized |->
                 check_meta_description(article.meta_description,
                                        article.keyword_in_description),
             keyword_density_optimal |->
                 check_keyword_density(article.primary_keyword_density),
             heading_structure_valid |->
                 check_heading_structure(article.sections),
             keyword_in_intro |->
                 check_keyword_in_intro(article.sections,
                                        article.keyword_in_first_200_words),
             internal_links_present |->
                 check_internal_links(article.internal_links),
             external_refs_present |->
                 check_external_refs(article.external_references),
             content_appears_unique |->
                 check_content_uniqueness(article.repetitive)]
        issues ==
            AppendedBy("word_count_adequate",
                       word_count_issues(article.word_count))
            \o AppendedBy("title_tag_optimized",
                          title_tag_issues(article.title_tag,
                                           article.keyword_in_title))
            \o AppendedBy("meta_description_optimized",
                          meta_description_issues(article.meta_description,
                                                  article.keyword_in_description))
            \o AppendedBy("keyword_density_optimal",
                          keyword_density_issues(article.primary_keyword_density))
            \o AppendedBy("heading_structure_valid",
                          heading_structure_issues(article.sections))
            \o AppendedBy("keyword_in_intro",
                          keyword_in_intro_issues(article.sections,
                                                  article.keyword_in_first_200_words))
            \o AppendedBy("internal_links_present",
                          internal_links_issues(article.internal_links))
            \o AppendedBy("external_refs_present",
                          external_refs_issues(article.external_references))
            \o AppendedBy("content_appears_unique",
                          content_uniqueness_issues(article.repetitive))
        passed_checks == Cardinality({c \in DOMAIN checks : checks[c]})
        total_checks == Cardinality(DOMAIN checks)
    IN  [is_valid |-> is_valid(passed_checks, total_checks),
         score |-> IF total_checks > 0
                   THEN round1(passed_checks * 100, total_checks) ELSE 0,
         checks |-> checks,
         issues |-> issues,
         suggestions |-> [i \in DOMAIN issues |->
                             [check |-> issues[i].check,
                              text |-> <<"suggestion for", issues[i].text>>]]]

\* One call of validate.
SV_Validate(article) ==
    /\ IsNone(seo)
    /\ seo' = Some([article |-> article, result |-> validate(article)])
    /\ UNCHANGED OutsideValidator

\* ------------------------------------------------------------ QualityScorer
REVISION_THRESHOLD == 60

\* Exact fractions n/d with d > 0, kept in lowest terms.
RECURSIVE GCD(_, _)
GCD(a, b) == IF b = 0 THEN a ELSE GCD(b, a % b)
Abs(n) == IF n < 0 THEN -n ELSE n
Frac(n, d) ==
    LET g == GCD(Abs(n), d) IN [n |-> n \div g, d |-> d \div g]
Whole(k) == [n |-> k, d |-> 1]
Less(x, y) == x.n * y.d < y.n * x.d
Plus(x, y) == Frac(x.n * y.d + y.n * x.d, x.d * y.d)
\* max(0, min(100, x))
Clamp(x) ==
    IF Less(x, Whole(0)) THEN Whole(0)
    ELSE IF Less(Whole(100), x) THEN Whole(100) ELSE x

\* A text as the scorer measures it: len(content.split()), the number of
\* different words, the number of sentences _split_sentences keeps (those of
\* more than two words), the sum of _count_syllables over the words, the
\* sentences of more than 30 words, the non-blank paragraphs, the standard
\* deviation of the sentence lengths and the cliches found.
Contents ==
    {c \in [words : {0, 1, 2, 3, 60, 500},
            unique_words : {0, 1, 2, 42, 60, 199},
            sentences : {0, 1, 2, 6},
            syllable_count : {0, 1, 2, 3, 6, 60, 90, 180, 500, 1000},
            long_sentences : {0, 1},
            paragraphs : {0, 1, 2},
            deviation : {0, 3},
            cliche_count : {0, 1}] :
        /\ 3 * c.sentences <= c.words
        /\ c.sentences * c.words <= 1000
        /\ c.unique_words <= c.words
        /\ (c.unique_words = 0) <=> (c.words = 0)
        /\ c.syllable_count >= c.words /\ c.syllable_count <= 3 * c.words
        /\ c.long_sentences <= c.sentences
        /\ 31 * c.long_sentences + 3 * (c.sentences - c.long_sentences)
               <= c.words
        /\ (c.paragraphs = 0) <=> (c.words = 0)
        /\ c.paragraphs <= c.words
        /\ c.deviation > 0 => c.sentences >= 2 /\ c.words >= 60
        /\ c.cliche_count > 0 => c.words >= 3}

\* 206.835 - 1.015 * avg_sentence_length - 84.6 * avg_syllables, clamped.
flesch(c) ==
    Clamp(Frac(206835 * c.sentences * c.words - 1015 * c.words * c.words
                   - 84600 * c.syllable_count * c.sentences,
               1000 * c.sentences * c.words))

\* The score of the Flesch value before the penalties.
flesch_adjusted(f) ==
    IF ~Less(f, Whole(50)) /\ ~Less(Whole(70), f)
    THEN Frac(f.n + 30 * f.d, f.d)
    ELSE IF Less(Whole(70), f)
    THEN Frac(1060 * f.d - 3 * f.n, 10 * f.d)
    ELSE Frac(300 * f.d + 2 * f.n, 5 * f.d)

long_sentence_penalty(c) ==
    IF 5 * c.long_sentences > c.sentences THEN Whole(-10) ELSE Whole(0)

paragraph_adjustment(c) ==
    IF 50 * c.paragraphs <= c.words /\ c.words <= 150 * c.paragraphs
    THEN Whole(5)
    ELSE IF c.words > 200 * c.paragraphs THEN Whole(-5) ELSE Whole(0)

\* _calculate_readability without the final clamp.
calculate_readability_unclamped(c) ==
    IF c.sentences = 0 \/ c.words = 0 THEN Whole(50)
    ELSE Plus(Plus(flesch_adjusted(flesch(c)), long_sentence_penalty(c)),
              paragraph_adjustment(c))

calculate_readability(c) ==
    IF c.sentences = 0 \/ c.words = 0 THEN Whole(50)
    ELSE Clamp(Plus(Plus(flesch_adjusted(flesch(c)),
                         long_sentence_penalty(c)),
                    paragraph_adjustment(c)))

\* _assess_uniqueness: variety_score, in tenths of a point.  The vocabulary
\* score is min(100, ttr * 200), the sentence variety min(100, deviation *
\* 10), and each cliche costs 5 points.
assess_uniqueness(c) ==
    LET vocabulary_score ==
            IF c.words = 0 THEN Whole(0)
            ELSE IF 200 * c.unique_words > 100 * c.words THEN Whole(100)
            ELSE Frac(200 * c.unique_words, c.words)
        length_variety ==
            IF 10 * c.deviation > 100 THEN Whole(100)
            ELSE Whole(10 * c.deviation)
        sum == Plus(vocabulary_score, length_variety)
        variety_score ==
            Clamp(Plus(Frac(sum.n, 2 * sum.d), Whole(-5 * c.cliche_count)))
    IN round1(variety_score.n, variety_score.d)

\* The articles scored: the text and the score of the attached validation
\* result if any, in tenths of a point as round(score, 1) left it.
ScoredArticles ==
    [content : Contents,
     seo_validation : {None} \cup {Some(s) : s \in {0, 667, 778, 1000}}]

\* seo_score = 80.0, replaced by the validation score when there is one.
seo_score(article) ==
    IF IsNone(article.seo_validation) THEN 800
    ELSE Val(article.seo_validation)

\* readability_score * 0.4 + seo_score * 0.4 + variety_score * 0.2
overall_score(readability_score, seo_points, variety_score) ==
    Frac(40 * readability_score.n
             + (4 * seo_points + 2 * variety_score) * readability_score.d,
         100 * readability_score.d)

\* needs_revision taken from the rounded score.
needs_revision_rounded(overall) == round1(overall.n, overall.d) < 600

needs_revision(overall) == Less(overall, Whole(REVISION_THRESHOLD))

\* One call of score: the locals and the QualityScore returned, whose
\* scores are in tenths of a point.
QS_Score(article) ==
    /\ IsNone(qs)
    /\ LET readability_score == calculate_readability(article.content)
           variety_score == assess_uniqueness(article.content)
           overall == overall_score(readability_score, seo_score(article),
                                    variety_score)
       IN qs' = Some(
            [article |-> article,
             readability_score |-> readability_score,
             result |->
                [overall_score |-> round1(overall.n, overall.d),
                 readability_score |->
                     round1(readability_score.n, readability_score.d),
                 seo_score |-> seo_score(article),
                 variety_score |-> variety_score,
                 needs_revision |-> needs_revision(overall)]])
    /\ UNCHANGED OutsideScorer

\* ------------------------------------------------------------- SERPService
\* The topics researched, with len(query) and the query hash that seeds the
\* generator: int(md5(query).hexdigest()[:8], 16).
Queries == {"specific query", "other query"}
QueryLen(query) == IF query = "specific query" THEN 14 ELSE 11
query_hash(query) ==
    IF query = "specific query" THEN 1278689788 ELSE 1854525839
NumResults == {1, 10, 13}

\* The module random: seed sets the state of the generator, a shuffle
\* permutes its list as the state decides and moves the generator on.
seed(a) == a % RngStates
advance(state) == (state + 1) % RngStates
shuffle(x, state) ==
    [i \in 1..Len(x) |-> x[((i - 1 + state) % Len(x)) + 1]]

domains ==
    <<"forbes.com", "hubspot.com", "techcrunch.com", "medium.com",
      "entrepreneur.com", "inc.com", "businessinsider.com", "wired.com",
      "zdnet.com", "cnet.com", "pcmag.com", "techradar.com",
      "nytimes.com", "theguardian.com", "bbc.com">>
\* The templates are named by their place in the source; title_lengths
\* holds the length of each title template around the query.
title_templates == [i \in 1..12 |-> i]
title_lengths == <<30, 23, 42, 29, 27, 27, 24, 24, 24, 27, 39, 32>>
snippet_templates == [i \in 1..8 |-> i]
common_questions == [i \in 1..8 |-> i]

RECURSIVE SumTitles(_, _)
SumTitles(results, query) ==
    IF results = <<>> THEN 0
    ELSE title_lengths[Head(results).title] + QueryLen(query)
             + SumTitles(Tail(results), query)

Min(a, b) == IF a < b THEN a ELSE b

\* The mock results built from the generator state s0 the shuffles start in:
\* the SERPAnalysis and the state the generator is left in.
mock_results(query, num_results, s0) ==
    LET s1 == advance(s0)
        s2 == advance(s1)
        s3 == advance(s2)
        d == shuffle(domains, s0)
        t == shuffle(title_templates, s1)
        sn == shuffle(snippet_templates, s2)
        q == shuffle(common_questions, s3)
        results ==
            [i \in 1..Min(num_results, Len(t)) |->
                [rank |-> i,
                 url |-> <<d[((i - 1) % Len(d)) + 1], 2025 - ((i - 1) % 2)>>,
                 title |-> t[i],
                 snippet |-> sn[((i - 1) % Len(sn)) + 1],
                 domain |-> d[((i - 1) % Len(d)) + 1]]]
    IN [analysis |->
            [query |-> query,
             total_results |-> num_results,
             results |-> results,
             common_questions |-> SubSeq(q, 1, 6),
             avg_title_length |->
                 Frac(SumTitles(results, query), Len(results)),
             top_domains |-> [i \in 1..Min(5, Len(results)) |-> results[i].domain]],
        rng |-> advance(s3)]

\* _generate_mock_results that shuffles with the generator as it finds it.
generate_mock_results_unseeded(query, num_results, rng) ==
    mock_results(query, num_results, rng)

\* _generate_mock_results: random.seed(query_hash), then the shuffles.
generate_mock_results(query, num_results, rng) ==
    mock_results(query, num_results, seed(query_hash(query)))

\* How a request to SerpAPI ends: with a response the results are built
\* from, or with the exception raised inside the try block: a transport
\* error or an error status (both httpx.HTTPError), a body that is not JSON
\* (json.JSONDecodeError), or items SERPResult refuses (ValidationError).
HTTPErrors == {"ConnectError", "HTTPStatusError"}
FetchFailures == HTTPErrors \cup {"JSONDecodeError", "ValidationError"}
FetchOutcomes == {"ok"} \cup FetchFailures

\* The generator before the module random is imported, and no call made.
NewResearch == [rng |-> None, call |-> None, mocks |-> {}]

\* Importing random seeds the generator from the system's entropy.
SS_Import ==
    /\ IsNone(research.rng)
    /\ \E s \in 0..(RngStates - 1) : research' = [research EXCEPT !.rng = Some(s)]
    /\ UNCHANGED OutsideResearch

\* A call that ends in _generate_mock_results; again tells that mock results
\* for this query and count were produced before.
Mocked(query, num_results, use_mock, outcome) ==
    LET m == generate_mock_results(query, num_results, Val(research.rng)) IN
    [rng |-> Some(m.rng),
     call |-> Some([query |-> query, num_results |-> num_results,
                    use_mock |-> use_mock, outcome |-> outcome,
                    pc |-> "returned", mock |-> TRUE,
                    again |-> \E x \in research.mocks :
                                 /\ x.query = query
                                 /\ x.num_results = num_results,
                    result |-> Some(m.analysis)]),
     mocks |-> research.mocks \cup
                  {[query |-> query, num_results |-> num_results,
                    analysis |-> m.analysis]}]

\* fetch_serp_results of a service without api key.
SS_FetchMock(query, num_results) ==
    /\ ~IsNone(research.rng)
    /\ research' = Mocked(query, num_results, TRUE, "none")
    /\ UNCHANGED OutsideResearch

\* fetch_serp_results of a service with an api key: _fetch_real_results.
SS_FetchReal(query, num_results, outcome) ==
    /\ ~IsNone(research.rng)
    /\ research' =
        IF outcome = "ok"
        THEN [research EXCEPT !.call =
                Some([query |-> query, num_results |-> num_results,
                      use_mock |-> FALSE, outcome |-> outcome,
                      pc |-> "returned", mock |-> FALSE, again |-> FALSE,
                      result |-> Some([query |-> query])])]
        ELSE IF outcome \in HTTPErrors
        THEN Mocked(query, num_results, FALSE, outcome)
        ELSE [research EXCEPT !.call =
                Some([query |-> query, num_results |-> num_results,
                      use_mock |-> FALSE, outcome |-> outcome,
                      pc |-> "raised", mock |-> FALSE, again |-> FALSE,
                      result |-> None])]
    /\ UNCHANGED OutsideResearch

\* ---------------------------------------------------------- ArticleRequest
\* A topic string: the whitespace it starts with, the text between, which
\* neither starts nor ends with whitespace, and the whitespace it ends with,
\* each by its length.
Topics == [leading : {0, 2}, text : {0, 1, 2, 3, 496, 498, 500, 501},
           trailing : {0, 2}]
len(v) == v.leading + v.text + v.trailing

\* str.strip
strip(v) == [leading |-> 0, text |-> v.text, trailing |-> 0]

\* The request bodies: a topic, a target word count and the length of the
\* language code.
Bodies ==
    [topic : Topics, target_word_count : {499, 500, 10000, 10001},
     language : {1, 2, 10, 11}]

\* Field(min_length=.., max_length=..) on a string, Field(ge=.., le=..) on an
\* integer.
length_between(v, min_length, max_length) ==
    min_length <= len(v) /\ len(v) <= max_length
between(n, ge, le) == ge <= n /\ n <= le

\* @field_validator("topic"): an after validator, it gets the value that
\* passed the constraints of the field.
validate_topic(v) == strip(v)

\* ArticleRequest(**body): the model, or None for the ValidationError.
ArticleRequest(body) ==
    IF /\ length_between(body.topic, 3, 500)
       /\ between(body.target_word_count, 500, 10000)
       /\ 2 <= body.language /\ body.language <= 10
    THEN Some([topic |-> validate_topic(body.topic),
               target_word_count |-> body.target_word_count,
               language |-> body.language])
    ELSE None

\* POST /jobs with a body: FastAPI answers 422 when the body is no
\* ArticleRequest and calls create_job, which stores the job, otherwise.
AR_Post(body) ==
    /\ IsNone(req)
    /\ LET request == ArticleRequest(body) IN
        req' = Some([body |-> body,
                     request |-> request,
                     code |-> IF IsNone(request) THEN 422 ELSE 200,
                     job |-> IF IsNone(request) THEN None
                             ELSE Some([topic |-> Val(request).topic,
                                        target_word_count |->
                                            Val(request).target_word_count])])
    /\ UNCHANGED OutsideRequest

\* ---------------------------------------------------------- specification
Init ==
    /\ jobs = <<>>
    /\ tasks = <<>>
    /\ event = Response("none", 0, 0)
    /\ llm = NewCall
    /\ svc = NewService
    /\ store = NewStore
    /\ rd = NewLookup
    /\ seo = None
    /\ qs = None
    /\ research = NewResearch
    /\ req = None

Next ==
    \/ create_job /\ UNCHANGED OutsideJobs
    \/ \E job_id \in 1..MaxJobs : resume_job(job_id) /\ UNCHANGED OutsideJobs
    \/ generate_article /\ UNCHANGED OutsideJobs
    \/ \E t \in 1..Len(tasks) : GetResumable(t) /\ UNCHANGED OutsideJobs
    \/ \E t \in 1..Len(tasks) : ResearchProgress(t) /\ UNCHANGED OutsideJobs
    \/ \E t \in 1..Len(tasks) : Research(t) /\ UNCHANGED OutsideJobs
    \/ \E t \in 1..Len(tasks) : SaveSerp(t) /\ UNCHANGED OutsideJobs
    \/ \E t \in 1..Len(tasks) : OutlineProgress(t) /\ UNCHANGED OutsideJobs
    \/ \E t \in 1..Len(tasks) : Outline(t) /\ UNCHANGED OutsideJobs
    \/ \E t \in 1..Len(tasks) : SaveOutline(t) /\ UNCHANGED OutsideJobs
    \/ \E t \in 1..Len(tasks) : SaveResult(t) /\ UNCHANGED OutsideJobs
    \/ \E t \in 1..Len(tasks) : MarkFailed(t) /\ UNCHANGED OutsideJobs
    \/ \E t \in 1..Len(tasks) : GA_ResearchProgress(t) /\ UNCHANGED OutsideJobs
    \/ \E t \in 1..Len(tasks) : GA_Fetch(t) /\ UNCHANGED OutsideJobs
    \/ \E t \in 1..Len(tasks) : GA_AnalyzingProgress(t) /\ UNCHANGED OutsideJobs
    \/ \E t \in 1..Len(tasks) : GA_Analyze(t) /\ UNCHANGED OutsideJobs
    \/ \E t \in 1..Len(tasks) : GA_OutlineProgress(t) /\ UNCHANGED OutsideJobs
    \/ \E t \in 1..Len(tasks) : GA_Outline(t) /\ UNCHANGED OutsideJobs
    \/ \E t \in 1..Len(tasks) : GA_GeneratingProgress(t) /\ UNCHANGED OutsideJobs
    \/ \E t \in 1..Len(tasks) : GA_Content(t) /\ UNCHANGED OutsideJobs
    \/ \E t \in 1..Len(tasks) : GA_ValidatingProgress(t) /\ UNCHANGED OutsideJobs
    \/ \E t \in 1..Len(tasks) : GA_ScoringProgress(t) /\ UNCHANGED OutsideJobs
    \/ \E t \in 1..Len(tasks) : GA_CompletedProgress(t) /\ UNCHANGED OutsideJobs
    \/ \E t \in 1..Len(tasks) : GA_Except(t) /\ UNCHANGED OutsideJobs

Spec == Init /\ [][Next]_vars

\* One caller of LLMClient.generate, call after call.
LLMNext ==
    \/ \E provider \in Providers : generate(provider)
    \/ \E response \in Responses : Attempt(response)
    \/ Sleep

LLMSpec == Init /\ [][LLMNext]_vars

\* One caller of the generation services, call after call.
ServicesNext ==
    \/ \E questions \in BOOLEAN : SA_Analyze(questions)
    \/ \E answer \in Answers : SA_ExtractQuestions(answer)
    \/ \E request \in Requests : OG_Generate(request)
    \/ \E error \in GenErrors : OG_CallFailed(error)
    \/ \E response \in OutlineTexts : OG_Parse(response)
    \/ \E n \in 1..MaxSections, questions \in BOOLEAN : CG_Generate(n, questions)
    \/ \E answer \in Answers : CG_Section(answer)
    \/ \E answer \in Answers : CG_FAQ(answer)
    \/ \E answer \in Answers : CG_InternalLinks(answer)
    \/ \E answer \in Answers : CG_ExternalReferences(answer)

ServicesSpec == Init /\ [][ServicesNext]_vars

\* Two sessions that call JobManager operations on the jobs table.
StoreNext ==
    \/ \E s \in Sessions, job \in 1..MaxStoreJobs, op \in StoreOps : Select(s, job, op)
    \/ \E s \in Sessions : Commit(s)

StoreSpec == Init /\ [][StoreNext]_vars

\* One call of get_resumable_data on any row.
ResumableNext ==
    \/ RD_Select
    \/ RD_Serp
    \/ RD_Outline

ResumableSpec == Init /\ [][ResumableNext]_vars

\* One call of validate on any article.
ValidatorNext == \E article \in Articles : SV_Validate(article)

ValidatorSpec == Init /\ [][ValidatorNext]_vars

\* One call of score on any article.
ScorerNext == \E article \in ScoredArticles : QS_Score(article)

ScorerSpec == Init /\ [][ScorerNext]_vars

\* Research calls of services with and without an api key.
ResearchNext ==
    \/ SS_Import
    \/ \E query \in Queries, num_results \in NumResults :
          SS_FetchMock(query, num_results)
    \/ \E query \in Queries, num_results \in NumResults,
          outcome \in FetchOutcomes :
          SS_FetchReal(query, num_results, outcome)

ResearchSpec == Init /\ [][ResearchNext]_vars

\* One request body posted.
RequestNext == \E body \in Bodies : AR_Post(body)

RequestSpec == Init /\ [][RequestNext]_vars

\* ============================================================ properties
JobIds == 1..Len(jobs)
Runs == 1..Len(tasks)
JobRuns == {t \in Runs : tasks[t].kind = "job"}
RunsOf(j) == {t \in JobRuns : tasks[t].job = j}

NonDecreasing(s) == \A i \in 1..(Len(s) - 1) : s[i] <= s[i + 1]

\* C1: the progress values a run that ends COMPLETED wrote to its job row
\* never decrease and end at 100, and a row whose status is COMPLETED has
\* progress 100.
C1_ProgressMonotone ==
    /\ \A t \in JobRuns :
        tasks[t].outcome = "completed" =>
            /\ NonDecreasing(tasks[t].writes)
            /\ tasks[t].writes[Len(tasks[t].writes)] = 100
    /\ \A j \in JobIds :
        jobs[j].status = COMPLETED => jobs[j].progress = 100

\* A run resumed on a stored research checkpoint has ended COMPLETED.
C1_Witness ==
    \E t \in JobRuns :
        /\ tasks[t].outcome = "completed"
        /\ ~IsNone(tasks[t].ckpt_serp)
        /\ Len(tasks[t].writes) >= 5

\* C2: a run that loaded a research checkpoint never calls the research
\* provider and generates content from that checkpoint; a run that loaded
\* both checkpoints calls neither the research provider nor the outline
\* generator and generates content from both checkpoints as loaded.
C2_CheckpointsSkipStages ==
    \A t \in JobRuns :
        /\ ~IsNone(tasks[t].ckpt_serp) =>
            /\ tasks[t].research_calls = 0
            /\ ~IsNone(tasks[t].content_args) =>
                Val(tasks[t].content_args).serp_analysis = Val(tasks[t].ckpt_serp)
        /\ (~IsNone(tasks[t].ckpt_serp) /\ ~IsNone(tasks[t].ckpt_outline)) =>
            /\ tasks[t].outline_calls = 0
            /\ ~IsNone(tasks[t].content_args) =>
                Val(tasks[t].content_args).outline = Val(tasks[t].ckpt_outline)

\* A run that loaded both checkpoints has called content generation.
C2_Witness ==
    \E t \in JobRuns :
        /\ ~IsNone(tasks[t].ckpt_serp)
        /\ ~IsNone(tasks[t].ckpt_outline)
        /\ ~IsNone(tasks[t].content_args)

\* C3: a resume request schedules a run only for a job whose status is
\* PENDING or FAILED; for a job in any other status it answers 400 and
\* leaves the jobs table and the runs as they were. Runs of a job are
\* scheduled by create and resume requests only.
C3_ResumeStep ==
    /\ Len(tasks') > Len(tasks) =>
        \/ event'.op = "generate"
        \/ /\ event'.op = "create"
           /\ Len(jobs') = Len(jobs) + 1
        \/ /\ event'.op = "resume"
           /\ event'.job \in JobIds
           /\ jobs[event'.job].status \in {PENDING, FAILED}
           /\ tasks'[Len(tasks')].job = event'.job
    /\ \A j \in JobIds :
        (event'.op = "resume" /\ event'.job = j
            /\ jobs[j].status \notin {PENDING, FAILED}) =>
                /\ event'.code = 400
                /\ jobs' = jobs
                /\ tasks' = tasks

\* C3: every step of the system is such a step.
C3_ResumeOnlyPendingOrFailed == [][C3_ResumeStep]_vars

\* A resume request for a COMPLETED job was answered 400.
C3_Witness ==
    /\ event.op = "resume"
    /\ event.code = 400
    /\ event.job \in JobIds
    /\ jobs[event.job].status = COMPLETED

\* C4: at most one process_job task of a job is scheduled or running.
C4_AtMostOneActiveRun ==
    \A j \in JobIds : Cardinality({t \in RunsOf(j) : Active(t)}) <= 1

\* C5: a run that ends with an unrecovered error leaves its job FAILED with
\* that error's message, and the checkpoints stored before are still
\* returned by get_resumable_data.
C5_RunEndsStep ==
    \A t \in JobRuns :
        (Active(t) /\ tasks'[t].pc = "done" /\ ~IsNone(tasks'[t].exc)) =>
            LET j == tasks[t].job IN
            /\ jobs'[j].status = FAILED
            /\ jobs'[j].error_message = tasks'[t].exc
            /\ ~IsNone(resumable_serp(jobs[j])) => ~IsNone(resumable_serp(jobs'[j]))
            /\ ~IsNone(resumable_outline(jobs[j])) =>
                    ~IsNone(resumable_outline(jobs'[j]))

\* C5: every end of a run with an unrecovered error is such a step.
C5_FailedRunMarksJobFailed == [][C5_RunEndsStep]_vars

\* C6: error_message is set if and only if the status is FAILED.
C6_ErrorMessageIffFailed ==
    \A j \in JobIds : ~IsNone(jobs[j].error_message) <=> jobs[j].status = FAILED

\* C7: completed_at is set if and only if the status is COMPLETED.
C7_CompletedAtIffCompleted ==
    \A j \in JobIds : jobs[j].completed_at <=> jobs[j].status = COMPLETED

\* C8: a checkpoint flag is true if and only if its blob is stored and
\* parses under its schema.
C8_FlagIffBlobParses ==
    \A j \in JobIds :
        /\ jobs[j].serp_collected <=> ~IsNone(resumable_serp(jobs[j]))
        /\ jobs[j].outline_generated <=> ~IsNone(resumable_outline(jobs[j]))

\* A job holds the research checkpoint and not yet the outline checkpoint.
C8_Witness ==
    \E j \in JobIds :
        /\ jobs[j].serp_collected
        /\ ~jobs[j].outline_generated
        /\ IsNone(jobs[j].outline_data)

\* C9: a checkpoint blob that is stored is never written again.
C9_CheckpointStep ==
    \A j \in JobIds :
        /\ ~IsNone(jobs[j].serp_data) => jobs'[j].serp_data = jobs[j].serp_data
        /\ ~IsNone(jobs[j].outline_data) =>
                jobs'[j].outline_data = jobs[j].outline_data

\* C9: no step writes a stored checkpoint blob again.
C9_CheckpointsWrittenOnce == [][C9_CheckpointStep]_vars

\* C10: a row in status OUTLINING, GENERATING, VALIDATING or COMPLETED holds
\* a research checkpoint, and a row in status GENERATING, VALIDATING or
\* COMPLETED holds an outline checkpoint.
C10_CheckpointBeforeAdvance ==
    \A j \in JobIds :
        /\ jobs[j].status \in {OUTLINING, GENERATING, VALIDATING, COMPLETED} =>
                ~IsNone(resumable_serp(jobs[j]))
        /\ jobs[j].status \in {GENERATING, VALIDATING, COMPLETED} =>
                ~IsNone(resumable_outline(jobs[j]))

\* A run that researched and outlined by itself has entered GENERATING.
C10_Witness ==
    \E t \in JobRuns :
        /\ tasks[t].pc = "ga_content"
        /\ tasks[t].research_calls = 1
        /\ tasks[t].outline_calls = 1
        /\ jobs[tasks[t].job].status = GENERATING

\* C11: a run that loaded no checkpoint and ended COMPLETED wrote to its job
\* row, in this order, RESEARCHING with 10, ANALYZING with 20, OUTLINING
\* with 35, GENERATING with 50, VALIDATING with 80 and then 90, and
\* COMPLETED with 100 (written by update_progress and again by save_result).
C11_EveryStatusInOrder ==
    \A t \in JobRuns :
        (/\ tasks[t].outcome = "completed"
         /\ IsNone(tasks[t].ckpt_serp)
         /\ IsNone(tasks[t].ckpt_outline)) =>
            tasks[t].writes = <<10, 20, 35, 50, 80, 90, 100, 100>>

\* C12: a run that ends leaves its job COMPLETED or FAILED.
C12_RunEndStep ==
    \A t \in JobRuns :
        (Active(t) /\ tasks'[t].pc = "done") =>
            jobs'[tasks[t].job].status \in {COMPLETED, FAILED}

\* C12: every end of a run is such a step.
C12_RunEndsCompletedOrFailed == [][C12_RunEndStep]_vars

\* C13: one call of generate calls the provider at most 3 times, one call
\* per attempt; it sleeps and makes a further attempt only after an attempt
\* whose error was classified retryable; it returns in the attempt whose
\* answer was a text, with that text; and when the third attempt failed with
\* a retryable error the call has raised that error.
C13_AtMostThreeAttempts ==
    /\ llm.calls <= 3
    /\ llm.calls = (IF llm.pc = "attempt" THEN llm.attempt_number - 1
                    ELSE llm.attempt_number)
    /\ (llm.pc = "sleep" \/ (llm.pc = "attempt" /\ llm.attempt_number > 1)) =>
            llm.retryable = Some(TRUE)
    /\ llm.pc = "returned" =>
            /\ Val(llm.response).kind = "text"
            /\ llm.result = Some(Val(llm.response).text)
    /\ (llm.calls = 3 /\ llm.retryable = Some(TRUE)) =>
            /\ llm.pc = "raised"
            /\ llm.exc = llm.caught

\* The third attempt of a call failed with a retryable error.
C13_Witness ==
    /\ llm.calls = 3
    /\ llm.retryable = Some(TRUE)
    /\ llm.pc = "raised"

\* The marker a caller sees on an exception of generate.
Marked(e) ==
    /\ e.type = "ValueError"
    /\ Len(e.msg) >= 3
    /\ SubSeq(e.msg, 1, 3) =
            <<W("non-retryable", "Title"), W("error", "lower"), W(":", "lower")>>

\* C14: when an attempt failed with an error classified terminal the call
\* has raised, with no sleep and no further attempt, a ValueError whose
\* message is the marker followed by the error's message; when the call
\* raised after a retryable error it raised that error as it was caught;
\* and the exception raised carries the marker exactly when the error was
\* classified terminal.
C14_TerminalWrappedAtOnce ==
    /\ llm.retryable = Some(FALSE) =>
            /\ llm.pc = "raised"
            /\ Marked(Val(llm.exc))
            /\ SubSeq(Val(llm.exc).msg, 4, Len(Val(llm.exc).msg)) = Val(llm.caught).msg
    /\ (llm.pc = "raised" /\ llm.retryable = Some(TRUE)) => llm.exc = llm.caught
    /\ llm.pc = "raised" => (Marked(Val(llm.exc)) <=> llm.retryable = Some(FALSE))

\* The third attempt of a call failed with a terminal error.
C14_Witness ==
    /\ llm.attempt_number = 3
    /\ llm.retryable = Some(FALSE)
    /\ llm.pc = "raised"

\* C15: the wait before the second attempt is 2 and the wait before the
\* third attempt is 4; there is one wait before each attempt after the
\* first and none after the call has returned or raised.
C15_WaitsTwoThenFour ==
    /\ Len(llm.waits) = (IF llm.pc = "sleep" THEN llm.attempt_number
                         ELSE Max2(llm.attempt_number - 1, 0))
    /\ Len(llm.waits) >= 1 => llm.waits[1] = 2
    /\ Len(llm.waits) >= 2 => llm.waits[2] = 4

\* The message a provider error of a retryable category carries by itself.
OwnWords(type) ==
    CASE type = "RateLimitError" -> <<"rate", "limit", "exceeded">>
      [] type = "APIError" -> <<"internal", "server", "error">>
      [] type = "APITimeoutError" -> <<"request", "timed", "out">>

\* The messages that name a terminal category, in any letter case.
TerminalMessages ==
    { Text(c, ws) : c \in Casings,
                    ws \in { <<"resource", "not", "found">>,
                             <<"authentication", "failed">>,
                             <<"invalid", "request">>,
                             <<"permission", "denied">> } }

C17_CategoryDecidesAlone ==
    ~IsNone(llm.response) =>
        LET r == Val(llm.response) IN
        (r.kind = "raise" /\ r.e.type \in RetryableTypes) =>
            llm.retryable = Some(TRUE)

\* The places of a run where it notifies its progress.
ProgressPcs ==
    {"research_progress", "outline_progress", "ga_research_progress",
     "ga_analyzing_progress", "ga_outline_progress", "ga_generating_progress",
     "ga_validating_progress", "ga_scoring_progress", "ga_completed_progress"}

\* C18: a step of a run at a progress notification never takes the run to
\* an exception handler: the run goes on to its next stage whether the
\* notification was written or raised.
C18_ProgressStep ==
    \A t \in JobRuns :
        tasks[t].pc \in ProgressPcs =>
            tasks'[t].pc \notin {"mark_failed", "ga_except"}

\* C18: every step of the system is such a step.
C18_ProgressBestEffort == [][C18_ProgressStep]_vars

\* An answer of the outline call that does not parse under the outline
\* schema: no JSON object, invalid JSON, or a section whose level is not
\* within 1..3.
Unparsable(response) ==
    \/ response.kind \in {"no_json", "bad_json"}
    \/ /\ response.kind = "json"
       /\ \E i \in 1..Len(response.sections) :
            /\ ~IsNone(response.sections[i])
            /\ ~OutlineSection_valid([level |-> Val(response.sections[i])])

\* C19: when the answer of the outline call does not parse under the
\* outline schema, OutlineGenerator.generate returns the fallback outline
\* and raises nothing.
C19_ParseFailureFallsBack ==
    (svc.service = "outline" /\ ~IsNone(svc.response)
        /\ Unparsable(Val(svc.response))) =>
            /\ svc.pc = "returned"
            /\ IsNone(svc.exc)
            /\ ~IsNone(svc.outline)
            /\ Val(svc.outline).fallback

\* C20: a service in which a generation call ended with a terminal error or
\* with its retries exhausted raises to the run, which marks the job FAILED.
C20_CallFailureAbortsRun ==
    svc.failed # {} => svc.pc = "raised"

\* C21: when no operation is in progress, each row is the row that the
\* operations started on it since no operation was last in progress give
\* when they are applied one after another in some order; a row on which
\* none was started is as it was.
Serial(ops, row) ==
    IF Len(ops) = 0 THEN {row}
    ELSE IF Len(ops) = 1 THEN {Assigned(ops[1].op, row)}
    ELSE {Assigned(ops[2].op, Assigned(ops[1].op, row)),
          Assigned(ops[1].op, Assigned(ops[2].op, row))}

OpsOn(job) == SelectSeq(store.log, LAMBDA e : e.job = job)

C21_OperationsSerialize ==
    (Quiet /\ Len(store.log) <= 2) =>
        \A j \in 1..MaxStoreJobs :
            store.rows[j] \in Serial(OpsOn(j), store.base[j])

\* C22: a resume request for a job that holds a research checkpoint, is not
\* COMPLETED and has no run scheduled or running is not rejected, whatever
\* status and progress the stopped run left in the row.
C22_ResumeStep ==
    \A j \in JobIds :
        (/\ event'.op = "resume"
         /\ event'.job = j
         /\ \A t \in RunsOf(j) : ~Active(t)
         /\ ~IsNone(resumable_serp(jobs[j]))
         /\ jobs[j].status # COMPLETED) =>
            event'.code # 400

\* C22: every step of the system is such a step.
C22_StoppedRunResumable == [][C22_ResumeStep]_vars

\* C23: a call of get_resumable_data that found its row returns, for each
\* checkpoint, the stored document when the blob is JSON of the checkpoint's
\* schema and None otherwise, whatever the other blob is; parsing never
\* raises; an unknown job gives None for both.
C23_CheckpointsIndependent ==
    /\ rd.pc = "raised" => IsNone(rd.job)
    /\ (rd.pc = "returned" /\ IsNone(rd.job)) =>
            IsNone(rd.serp_analysis) /\ IsNone(rd.outline)
    /\ (rd.pc = "returned" /\ ~IsNone(rd.job)) =>
        LET s == Val(rd.job).serp_data
            o == Val(rd.job).outline_data IN
        /\ rd.serp_analysis =
              IF \E d \in SERPAnalysis : s = Some(model_dump_json(d))
              THEN Some(Val(s).doc) ELSE None
        /\ rd.outline =
              IF \E d \in ArticleOutline : o = Some(model_dump_json(d))
              THEN Some(Val(o).doc) ELSE None

\* C23: a call returned an outline although the research blob did not parse.
C23_Witness ==
    /\ rd.pc = "returned"
    /\ ~IsNone(rd.job)
    /\ ~IsNone(Val(rd.job).serp_data)
    /\ IsNone(rd.serp_analysis)
    /\ ~IsNone(rd.outline)

\* The number of checks of the validation that passed.
Passed == Cardinality({c \in DOMAIN Val(seo).result.checks :
                          Val(seo).result.checks[c]})

\* round(k / 9 * 100, 1) for k = 0..9, in tenths.
ScoreOfNine == <<0, 111, 222, 333, 444, 556, 667, 778, 889, 1000>>

\* C24: validate runs 9 checks; with k of them passing its score is
\* round(k/9 x 100, 1), and is_valid is true exactly when that score is at
\* least 70, which is exactly when k >= 7.
C24_ScoreOfPassedChecks ==
    ~IsNone(seo) =>
        /\ Cardinality(DOMAIN Val(seo).result.checks) = 9
        /\ Val(seo).result.score = ScoreOfNine[Passed + 1]
        /\ Val(seo).result.is_valid <=> Val(seo).result.score >= 700
        /\ Val(seo).result.is_valid <=> Passed >= 7

\* C24: the article validated passes exactly 6 of the 9 checks, the
\* largest number that leaves it invalid.
C24_Witness == ~IsNone(seo) /\ Passed = 6

\* C25: the readability score computed for a text is between 0 and 100.
C25_ReadabilityInRange ==
    ~IsNone(qs) =>
        /\ ~Less(Val(qs).readability_score, Whole(0))
        /\ ~Less(Whole(100), Val(qs).readability_score)

\* C25: a text whose score before the final clamp is above 100 was scored.
C25_Witness ==
    /\ ~IsNone(qs)
    /\ Less(Whole(100),
            calculate_readability_unclamped(Val(qs).article.content))

\* 0.4 x readability + 0.4 x SEO + 0.2 x variety, all three in tenths of a
\* point, as a number of hundredths of a point.
WeightedTenths(readability, seo_points, variety) ==
    4 * readability + 4 * seo_points + 2 * variety

\* C26 as stated: the scores reported satisfy overall = 0.4 x readability +
\* 0.4 x SEO + 0.2 x variety, with SEO the validation score or 80, and
\* needs_revision is true exactly when the overall score reported is below 60.
C26_ReportedWeightedSum ==
    ~IsNone(qs) =>
        LET r == Val(qs).result IN
        /\ r.seo_score = IF IsNone(Val(qs).article.seo_validation) THEN 800
                         ELSE Val(Val(qs).article.seo_validation)
        /\ 10 * r.overall_score =
               WeightedTenths(r.readability_score, r.seo_score,
                              r.variety_score)
        /\ r.needs_revision <=> r.overall_score < 600

\* C26, amended: the overall score reported is the weighted sum of the
\* readability as computed, the SEO score (validation score or 80) and the
\* variety score, rounded to one decimal, and needs_revision is true exactly
\* when the sum before rounding is below 60.
C26_RoundedWeightedSum ==
    ~IsNone(qs) =>
        LET r == Val(qs).result
            x == Val(qs).readability_score
            sum == [n |-> 4 * x.n * 10
                            + (4 * r.seo_score + 2 * r.variety_score) * x.d,
                    d |-> 100 * x.d]
        IN
        /\ r.seo_score = IF IsNone(Val(qs).article.seo_validation) THEN 800
                         ELSE Val(Val(qs).article.seo_validation)
        /\ 2 * Abs(sum.n - 10 * r.overall_score * x.d) <= 10 * x.d
        /\ r.needs_revision <=> sum.n < 60 * sum.d

\* C26: an article without validation result whose sum is 59.96: it is
\* reported with an overall score of 60.0 and needs revision.
C26_Witness ==
    /\ ~IsNone(qs)
    /\ IsNone(Val(qs).article.seo_validation)
    /\ Val(qs).result.overall_score = 600
    /\ Val(qs).result.needs_revision

\* The outline call returned the fallback outline for the example topic and
\* a target of 1500 words.
ExampleFallback ==
    /\ svc.service = "outline"
    /\ svc.pc = "returned"
    /\ svc.request = Some([topic |-> ExampleTopic, target_word_count |-> 1500])
    /\ ~IsNone(svc.outline)
    /\ Val(svc.outline).fallback

\* C27: the fallback outline for 'best productivity tools for remote teams'
\* and 1500 words has exactly 5 sections with target word counts 225, 300,
\* 375, 375, 225, which sum to 1500, and estimated word count 1500.
C27_FallbackSplit ==
    ExampleFallback =>
        LET o == Val(svc.outline)
            wc(i) == o.sections[i].target_word_count IN
        /\ Len(o.sections) = 5
        /\ <<wc(1), wc(2), wc(3), wc(4), wc(5)>> = <<225, 300, 375, 375, 225>>
        /\ wc(1) + wc(2) + wc(3) + wc(4) + wc(5) = 1500
        /\ o.estimated_word_count = 1500

\* C27: that fallback outline was returned, for an answer without JSON.
C27_Witness ==
    /\ ExampleFallback
    /\ Val(svc.response).kind = "no_json"

\* C28: two synthetic research results for the same topic and result count
\* are equal in every field, whatever calls were made before or in between.
C28_MockDeterministic ==
    \A a \in research.mocks, b \in research.mocks :
        (a.query = b.query /\ a.num_results = b.num_results) =>
            a.analysis = b.analysis

\* C28: synthetic results were produced for both topics, the last ones for
\* a topic and count they had been produced for before.
C28_Witness ==
    /\ \A q \in Queries : \E m \in research.mocks : m.query = q
    /\ ~IsNone(research.call)
    /\ Val(research.call).mock
    /\ Val(research.call).again

\* C29: a call whose real fetch failed, whatever the failure, returned the
\* synthetic result and raised nothing.
C29_AnyFailureFallsBack ==
    (~IsNone(research.call) /\ Val(research.call).outcome \in FetchFailures) =>
        /\ Val(research.call).pc = "returned"
        /\ Val(research.call).mock

\* C30: an accepted request carries a topic that, as stored after trimming,
\* has 3 to 500 characters and a target word count of 500 to 10000; for
\* every other body no job is created.
C30_AcceptedWithinLimits ==
    ~IsNone(req) =>
        LET r == Val(req) IN
        /\ ~IsNone(r.request) =>
              /\ 3 <= len(Val(r.request).topic)
              /\ len(Val(r.request).topic) <= 500
              /\ 500 <= Val(r.request).target_word_count
              /\ Val(r.request).target_word_count <= 10000
        /\ IsNone(r.request) => IsNone(r.job)

\* The entries of a list of the validation result that a check appended.
EntriesOf(list, c) == {i \in DOMAIN list : list[i].check = c}

\* C31: validate runs nine checks; a check that fails appends at least one
\* entry to issues and one to suggestions, a check that passes appends
\* nothing, and issues is empty exactly when all nine checks pass.
C31_FailedChecksReport ==
    ~IsNone(seo) =>
        LET r == Val(seo).result IN
        /\ Cardinality(DOMAIN r.checks) = 9
        /\ \A c \in DOMAIN r.checks :
              IF r.checks[c]
              THEN /\ EntriesOf(r.issues, c) = {}
                   /\ EntriesOf(r.suggestions, c) = {}
              ELSE /\ EntriesOf(r.issues, c) # {}
                   /\ EntriesOf(r.suggestions, c) # {}
        /\ (r.issues = <<>>) <=> (\A c \in DOMAIN r.checks : r.checks[c])

\* C32: the heading-structure check passes exactly when at least 2 sections
\* are of level 2 and no section is more than one level above the section
\* before it, the first being compared with level 1.
C32_HeadingStructure ==
    ~IsNone(seo) =>
        LET sections == Val(seo).article.sections
            before(i) == IF i = 1 THEN 1 ELSE sections[i - 1] IN
        Val(seo).result.checks.heading_structure_valid <=>
            /\ Cardinality({i \in DOMAIN sections : sections[i] = 2}) >= 2
            /\ \A i \in DOMAIN sections : sections[i] <= before(i) + 1

\* C32: an article whose only section is of level 3 failed the check.
C32_Witness ==
    /\ ~IsNone(seo)
    /\ Val(seo).article.sections = <<3>>
    /\ ~Val(seo).result.checks.heading_structure_valid

\* The stage a run is in, by its position: research 1, outline 2, content
\* generation 3, validation 4, scoring 5, the end of the run 6; 0 before the
\* first stage and 7 in the error handlers and after the run.
StageOf(pc) ==
    CASE pc \in {"research_progress", "research", "save_serp",
                 "ga_research_progress", "ga_fetch", "ga_analyzing_progress",
                 "ga_analyze"} -> 1
      [] pc \in {"outline_progress", "outline", "save_outline",
                 "ga_outline_progress", "ga_outline"} -> 2
      [] pc \in {"ga_generating_progress", "ga_content"} -> 3
      [] pc = "ga_validating_progress" -> 4
      [] pc = "ga_scoring_progress" -> 5
      [] pc \in {"ga_completed_progress", "save_result"} -> 6
      [] pc = "get_resumable" -> 0
      [] OTHER -> 7

\* C33: a step of a run never takes it back to an earlier stage, a scored
\* article carries its validation result, and the SEO component of its
\* quality score is the validation score, not the default.
C33_StagesStep ==
    \A t \in DOMAIN tasks :
        /\ StageOf(tasks'[t].pc) >= StageOf(tasks[t].pc)
        /\ (~IsNone(tasks'[t].article) /\ Val(tasks'[t].article).quality_score) =>
              /\ Val(tasks'[t].article).seo_validation
              /\ Val(tasks'[t].article).seo_component = "validation"

\* C33: every step of the system is such a step.
C33_StagesInOrder == [][C33_StagesStep]_vars

\* C33: a run that went through research and outline by itself holds its
\* scored article.
C33_Witness ==
    \E t \in DOMAIN tasks :
        /\ tasks[t].research_calls = 1
        /\ tasks[t].outline_calls = 1
        /\ ~IsNone(tasks[t].article)
        /\ Val(tasks[t].article).quality_score

\* C34: a step from a state where a job row is COMPLETED leaves the row's
\* status, progress, result and completion time as they were.
C34_CompletedStep ==
    \A j \in DOMAIN jobs :
        jobs[j].status = COMPLETED =>
            /\ jobs'[j].status = jobs[j].status
            /\ jobs'[j].progress = jobs[j].progress
            /\ jobs'[j].result = jobs[j].result
            /\ jobs'[j].completed_at = jobs[j].completed_at

\* C34: COMPLETED is terminal: every step of the system is such a step.
C34_CompletedTerminal == [][C34_CompletedStep]_vars

\* C35: a job row that is COMPLETED holds its result blob.
C35_CompletedHasResult ==
    \A j \in DOMAIN jobs :
        jobs[j].status = COMPLETED => ~IsNone(jobs[j].result)

\* C36: a step that turns a job row FAILED changes nothing of the row but
\* its status and its error message: the progress, the step text, the
\* checkpoint blobs, the flags, the result and the completion time stay.
C36_FailedStep ==
    \A j \in DOMAIN jobs :
        (jobs[j].status # FAILED /\ jobs'[j].status = FAILED) =>
            jobs'[j] = [jobs[j] EXCEPT !.status = FAILED,
                                       !.error_message = jobs'[j].error_message]

\* C36: every step of the system that fails a job is such a step.
C36_FailureFrame == [][C36_FailedStep]_vars

\* C37: a fallback research result requested for N results holds exactly N
\* results, ranked 1..N in increasing order, and its total_results is the
\* number of results it holds.
C37_FallbackHasNResults ==
    (~IsNone(research.call) /\ Val(research.call).mock) =>
        LET c == Val(research.call)
            a == Val(c.result)
        IN /\ Len(a.results) = c.num_results
           /\ \A i \in DOMAIN a.results : a.results[i].rank = i
           /\ a.total_results = Len(a.results)

\* An outline call that returned the fallback outline.
FallbackReturned ==
    /\ svc.service = "outline"
    /\ svc.pc = "returned"
    /\ ~IsNone(svc.outline)
    /\ Val(svc.outline).fallback

\* C38: the fallback outline has exactly 5 level-2 sections whose target
\* word counts are the rounded-down 15%, 20%, 25%, 25% and 15% of the
\* request's target; their sum never exceeds the target and equals it when
\* the target is a multiple of 20.
C38_FallbackShares ==
    FallbackReturned =>
        LET o == Val(svc.outline)
            w == Val(svc.request).target_word_count
            wc(i) == o.sections[i].target_word_count
            total == wc(1) + wc(2) + wc(3) + wc(4) + wc(5)
        IN /\ w \in 500..10000
           /\ Len(o.sections) = 5
           /\ \A i \in 1..5 : o.sections[i].level = 2
           /\ <<wc(1), wc(2), wc(3), wc(4), wc(5)>> =
                 <<(w * 15) \div 100, (w * 20) \div 100, (w * 25) \div 100,
                   (w * 25) \div 100, (w * 15) \div 100>>
           /\ total <= w
           /\ (w % 20 = 0) => (total = w)

\* C38: a fallback outline was returned for a target that is no multiple
\* of 20, and its shares sum to less than the target.
C38_Witness ==
    /\ FallbackReturned
    /\ Val(svc.request).target_word_count % 20 # 0
    /\ LET o == Val(svc.outline) IN
       o.sections[1].target_word_count + o.sections[2].target_word_count
         + o.sections[3].target_word_count + o.sections[4].target_word_count
         + o.sections[5].target_word_count < Val(svc.request).target_word_count

\* C39: on the error of every failed attempt the retry predicate, applied to
\* the exception that left the body of generate, accepts it exactly when
\* _is_retryable_error called the caught error retryable, and an exception
\* the predicate refuses carries the 'Non-retryable error' marker.
C39_PredicateAgreesWithClassifier ==
    ~IsNone(llm.exc) =>
        /\ retry_if_exception(Val(llm.exc)) <=> Val(llm.retryable)
        /\ ~retry_if_exception(Val(llm.exc)) => Marked(Val(llm.exc))

====
